---- MODULE Spec2Model ----
(***************************************************************************)
(* Model of the sound-your-scene search backend (api/search_service.py,    *)
(* api/music_service.py, api/storage.py, api/main.py).                     *)
(*                                                                         *)
(* Spec      the refinement controller: create_search_job, the background  *)
(*           task process_search_job with its two refinement loops, and    *)
(*           the job/result store behind them.                             *)
(* RankSpec  MusicService.convert_to_api_results on a scored result set.   *)
(* FilterSpec MusicService.llm_to_filters on a catalog of tracks.          *)
(* DefaultSpec, GenreSpec  llm_to_filters on the schema defaults and on    *)
(*           the genre lists alone.                                        *)
(* ScoreSpec MusicService.filters_to_results_df after llm_to_filters.      *)
(* SummarySpec MusicService.make_summary on a scored frame.                *)
(* MalformedSpec MusicService.search on an object that may lack keys.      *)
(* StoreSpec storage.py while Redis comes and goes and its keys expire.    *)
(* OutageSpec the background tasks when Redis stops answering in a job.    *)
(* LimitSpec check_rate_limit run by several workers on one Redis.         *)
(*                                                                         *)
(* Optional[T] values are sequences: <<>> is None, <<x>> is the value x.   *)
(* A Python dict with optional keys is a record with exactly those keys.   *)
(***************************************************************************)
EXTENDS Integers, Sequences, FiniteSets, TLC

VARIABLES
    redis_ok,       \* get_redis_client() returns a client whose commands succeed
    redis_jobs,     \* Redis keys "job:<id>": JSON text of JobData, or <<>>
    redis_results,  \* Redis keys "results:<id>": JSON text of SearchResults, or <<>>
    job_ttl,        \* Redis TTL of "job:<id>": seconds left before the key expires
    results_ttl,    \* Redis TTL of "results:<id>"
    JOB_STORE,      \* storage.JOB_STORE, the in-memory fallback
    RESULT_STORE,   \* storage.RESULT_STORE
    task,           \* per job: the background task process_search_job and its locals
    jobs_created,   \* number of job ids handed out by create_search_job
    last_stored,    \* StoreSpec: per job, the JobData of the latest store_job and its age
    rate_limit,     \* LimitSpec: Redis keys "rate_limit:{<ip>}:<window>", 0 when absent
    worker,         \* LimitSpec: per worker process, its position in check_rate_limit
    admitted,       \* LimitSpec: per client, requests admitted in the life of each counter key
    scored,         \* RankSpec: the scored result set given to convert_to_api_results
    api_out,        \* RankSpec: the SearchResults it returned
    main_df,        \* FilterSpec: the catalog
    filters_object, \* FilterSpec: the LLM parameter object
    combined_filter, \* FilterSpec: the mask llm_to_filters returned
    filtered_results, \* ScoreSpec: the frame filters_to_results_df returned
    summary_out     \* SummarySpec: the digest make_summary returned

vars == <<redis_ok, redis_jobs, redis_results, job_ttl, results_ttl, JOB_STORE,
          RESULT_STORE, task, jobs_created, last_stored, rate_limit, worker,
          admitted, scored, api_out, main_df, filters_object, combined_filter,
          filtered_results, summary_out>>

ctlVars == <<redis_ok, redis_jobs, redis_results, job_ttl, results_ttl, JOB_STORE,
             RESULT_STORE, task, jobs_created, last_stored, rate_limit, worker,
             admitted>>
storeVars == <<last_stored>>
limitVars == <<rate_limit, worker, admitted>>
rankVars == <<scored, api_out>>
filterVars == <<main_df, filters_object, combined_filter, filtered_results, summary_out>>

----------------------------------------------------------------------------
(* Bounds of the exploration *)

\* LLM calls explored, over all jobs; a job is created only while a whole
\* turn (max_iters calls) still fits
MaxCalls == 6

JobIds == 1..MaxCalls

----------------------------------------------------------------------------
(* Program constants *)

TARGET_MIN == 50
TARGET_MAX == 150
max_iters == 3
USER_MAX_ITERATIONS == 2
API_RESULT_LIMIT == 150

NoneV == <<>>
Some(x) == <<x>>

\* dict.get(key, default)
get(d, key, default) == IF key \in DOMAIN d THEN d[key] ELSE default

\* dict.get(key): None when the key is absent
get_opt(d, key) == IF key \in DOMAIN d THEN Some(d[key]) ELSE NoneV

Min(a, b) == IF a <= b THEN a ELSE b

----------------------------------------------------------------------------
(* The LLM gateway and the catalog, as the controller sees them.           *)
(* A parameter object returned by query_llm is the parsed JSON of the      *)
(* response: "selects" stands for its filter and weight fields by the      *)
(* number of catalog rows they include; user_message and reflection are    *)
(* present only when the response carries them (json.loads does not        *)
(* validate the response against FiltersModel).                            *)

LLMResponses ==
    { [selects |-> 0],
      [selects |-> 150, user_message |-> "m150", reflection |-> "r150"],
      [selects |-> 151, user_message |-> "m151", reflection |-> "r151"] }

\* str(e) of the exception a failed LLM call raises; an exception built
\* without arguments has the empty text.
LLMErrors == { "", "LLM client not initialized" }

\* A Python exception leaving a function, with its str() text
Raise(text) == [raised |-> text]
IsRaise(x) == "raised" \in DOMAIN x

\* make_summary without its zero-row case: int(min()) of an empty column is
\* int(NaN), a ValueError
make_summary_count_NoEmptyCase(n) ==
    IF n = 0 THEN Raise("cannot convert float NaN to integer")
    ELSE [result_count |-> n, top_examples |-> Min(n, 5)]

\* MusicService.make_summary, by what the controller reads of it: the
\* zero-row case returns the count alone, before any statistic is taken
make_summary_count(n) ==
    IF n = 0 THEN [result_count |-> 0]
    ELSE [result_count |-> n, top_examples |-> Min(n, 5)]

\* MusicService.search: results (by row count) and summary
search(filters_json) ==
    LET summary == make_summary_count(filters_json.selects) IN
    IF IsRaise(summary) THEN summary
    ELSE [results |-> filters_json.selects, summary |-> summary]

\* MusicService.convert_to_api_results, by the fields the job store keeps
convert_count(n_rows, filters_json) ==
    [result_count |-> n_rows,
     tracks |-> Min(n_rows, API_RESULT_LIMIT),
     llm_message |-> get_opt(filters_json, "user_message"),
     llm_reflection |-> get_opt(filters_json, "reflection")]

----------------------------------------------------------------------------
(* storage.py *)

\* json.dumps(model_dump(), default=str): the JobStatus member is written as
\* its value, the record becomes JSON text
StatusValue(s) ==
    CASE s = "QUEUED" -> "queued"
      [] s = "RUNNING" -> "running"
      [] s = "DONE" -> "done"
      [] s = "ERROR" -> "error"

StatusMember(v) ==
    CASE v = "queued" -> "QUEUED"
      [] v = "running" -> "RUNNING"
      [] v = "done" -> "DONE"
      [] v = "error" -> "ERROR"

job_to_json(job_data) ==
    [json |-> [job_data EXCEPT !.status = StatusValue(job_data.status)]]

job_from_json(job_json) ==
    [job_json.json EXCEPT !.status = StatusMember(job_json.json.status)]

results_to_json(results) == [json |-> results]
results_from_json(results_json) == results_json.json

\* setex lifetimes of the two kinds of key
JOB_TTL_SECONDS == 7200
RESULTS_TTL_SECONDS == 3600

\* get_job: Redis first, the in-memory store when Redis is unavailable or
\* holds nothing under the key. The result is Optional[JobData].
get_job(job_id) ==
    IF redis_ok /\ redis_jobs[job_id] # NoneV
    THEN Some(job_from_json(redis_jobs[job_id][1]))
    ELSE JOB_STORE[job_id]

get_results(job_id) ==
    IF redis_ok /\ redis_results[job_id] # NoneV
    THEN Some(results_from_json(redis_results[job_id][1]))
    ELSE RESULT_STORE[job_id]

job_exists(job_id) ==
    IF redis_ok THEN redis_jobs[job_id] # NoneV ELSE JOB_STORE[job_id] # NoneV

\* store_job as a state change
store_job(job_id, job_data) ==
    IF redis_ok
    THEN /\ redis_jobs' = [redis_jobs EXCEPT ![job_id] = Some(job_to_json(job_data))]
         /\ job_ttl' = [job_ttl EXCEPT ![job_id] = JOB_TTL_SECONDS]
         /\ UNCHANGED JOB_STORE
    ELSE /\ JOB_STORE' = [JOB_STORE EXCEPT ![job_id] = Some(job_data)]
         /\ UNCHANGED <<redis_jobs, job_ttl>>

store_results(job_id, results) ==
    IF redis_ok
    THEN /\ redis_results' = [redis_results EXCEPT ![job_id] = Some(results_to_json(results))]
         /\ results_ttl' = [results_ttl EXCEPT ![job_id] = RESULTS_TTL_SECONDS]
         /\ UNCHANGED RESULT_STORE
    ELSE /\ RESULT_STORE' = [RESULT_STORE EXCEPT ![job_id] = Some(results)]
         /\ UNCHANGED <<redis_results, results_ttl>>

----------------------------------------------------------------------------
(* search_service.py: the refinement controller *)

Terminal == {"done", "failed"}
Awaiting == {"llm_initial", "llm_auto", "llm_user", "llm_auto_user"}

NoTask ==
    [pc |-> "none", query_text |-> "", existing |-> NoneV,
     conversation_history |-> NoneV, i |-> 0, current_filters |-> NoneV,
     current_results |-> 0, summary |-> NoneV, calls |-> <<>>,
     llm_raised |-> FALSE]

\* A piece of text built from a template and the numbers formatted into it
Text(t, iteration, count) == [text |-> t, iteration |-> iteration, count |-> count]

\* LLMService.create_initial_prompt
create_initial_prompt(user_query) ==
    [kind |-> "initial", original_query |-> user_query,
     previous_filters |-> NoneV, result_summary |-> NoneV,
     user_feedback |-> NoneV, current_step |-> 0, max_steps |-> 0]

\* A refinement prompt that leaves out the result summary
create_refine_prompt_NoSummary(original_query, previous_filters, result_summary, user_feedback, current_step, max_steps) ==
    [kind |-> "refine", original_query |-> original_query,
     previous_filters |-> Some(previous_filters),
     result_summary |-> NoneV,
     user_feedback |-> user_feedback,
     current_step |-> current_step, max_steps |-> max_steps]

\* LLMService.create_refine_prompt
create_refine_prompt(original_query, previous_filters, result_summary, user_feedback, current_step, max_steps) ==
    [kind |-> "refine", original_query |-> original_query,
     previous_filters |-> Some(previous_filters),
     result_summary |-> Some(result_summary),
     user_feedback |-> user_feedback,
     current_step |-> current_step, max_steps |-> max_steps]

\* One call of LLMService.query_llm: its prompt and its history argument
\* (the steps the gateway reads from it when the call is made)
LLMCall(prompt, history) == [prompt |-> prompt, history |-> history]

\* What get_job returns right after store_job(job_data)
Reload(job_data) ==
    IF redis_ok THEN job_from_json(job_to_json(job_data)) ELSE job_data

\* The local name conversation_history of process_search_job after the job
\* was stored: with the in-memory store it is the stored object itself and
\* sees every append, with Redis it stays the object the task started with
LocalHistory(t, job_data) ==
    IF redis_ok THEN t.conversation_history ELSE job_data.conversation_history

InBand(count) == TARGET_MIN <= count /\ count <= TARGET_MAX

\* The break without "and i > 0": an in-band first pass is accepted
StopInBand_FirstPass(count, i) == InBand(count)

\* The break of both refinement loops (search_service.py lines 330, 505)
StopInBand(count, i) == InBand(count) /\ i > 0

\* The automatic loop running max_iters times after the initial pass
AutoLoopLeaves_FullBudget(count, i) == i >= max_iters \/ StopInBand(count, i)

\* for i in range(max_iters - 1) with its break (lines 326-331): the loop of
\* run_auto_refine_with_tracking is left at index i
AutoLoopLeaves(count, i) == i >= max_iters - 1 \/ StopInBand(count, i)

\* The user loop with the budget of the initial loop (three more passes)
UserLoopLeaves_ThreeMore(count, i) == i >= max_iters \/ StopInBand(count, i)

\* for i in range(MAX_ITERATIONS) with its break (lines 500-506)
UserLoopLeaves(count, i) == i >= USER_MAX_ITERATIONS \/ StopInBand(count, i)

\* add_refinement_step that starts the step list of the turn afresh
add_refinement_step_Restart(job_data, step_type, user_input, filters_json, result_count, result_summary) ==
    LET history == job_data.conversation_history[1]
        step_number == Len(history.steps) + 1
        refinement_step ==
            [step_number |-> step_number,
             step_type |-> step_type,
             user_input |-> user_input,
             filters_json |-> filters_json,
             result_count |-> result_count,
             user_message |-> get(filters_json, "user_message", ""),
             rationale |-> get(filters_json, "reflection", ""),
             result_summary |-> result_summary]
    IN [job_data EXCEPT
            !.conversation_history =
                Some([history EXCEPT
                        !.steps = IF step_type = "auto_refine"
                                  THEN Append(@, refinement_step)
                                  ELSE <<refinement_step>>,
                        !.current_step = step_number]),
            !.current_filters_json = Some(filters_json)]

\* add_refinement_step that numbers the steps from zero
add_refinement_step_ZeroBased(job_data, step_type, user_input, filters_json, result_count, result_summary) ==
    LET history == job_data.conversation_history[1]
        step_number == Len(history.steps)
        refinement_step ==
            [step_number |-> step_number,
             step_type |-> step_type,
             user_input |-> user_input,
             filters_json |-> filters_json,
             result_count |-> result_count,
             user_message |-> get(filters_json, "user_message", ""),
             rationale |-> get(filters_json, "reflection", ""),
             result_summary |-> result_summary]
    IN [job_data EXCEPT
            !.conversation_history =
                Some([history EXCEPT !.steps = Append(@, refinement_step),
                                     !.current_step = step_number]),
            !.current_filters_json = Some(filters_json)]

\* add_refinement_step, as the new JobData it stores
add_refinement_step(job_data, step_type, user_input, filters_json, result_count, result_summary) ==
    LET history == job_data.conversation_history[1]
        step_number == Len(history.steps) + 1
        refinement_step ==
            [step_number |-> step_number,
             step_type |-> step_type,
             user_input |-> user_input,
             filters_json |-> filters_json,
             result_count |-> result_count,
             user_message |-> get(filters_json, "user_message", ""),
             rationale |-> get(filters_json, "reflection", ""),
             result_summary |-> result_summary]
    IN [job_data EXCEPT
            !.conversation_history =
                Some([history EXCEPT !.steps = Append(@, refinement_step),
                                     !.current_step = step_number]),
            !.current_filters_json = Some(filters_json)]

\* A recount that takes every step for an automatic refinement
UpdateTotalAutoRefinements_AllSteps(job_data) ==
    LET history == job_data.conversation_history[1] IN
    [job_data EXCEPT
        !.conversation_history =
            Some([history EXCEPT !.total_auto_refinements = Len(history.steps)])]

\* Lines 375-379 and 552-556: recount the auto_refine steps
UpdateTotalAutoRefinements(job_data) ==
    LET history == job_data.conversation_history[1]
        auto_refine_steps ==
            Cardinality({k \in 1..Len(history.steps) :
                            history.steps[k].step_type = "auto_refine"})
    IN [job_data EXCEPT
            !.conversation_history =
                Some([history EXCEPT !.total_auto_refinements = auto_refine_steps])]

\* create_search_job: a new job, QUEUED, with the request's history if any
NewJobData(query_text, request_history) ==
    [status |-> "QUEUED",
     query_text |-> query_text,
     finished_at |-> NoneV,
     error_message |-> NoneV,
     conversation_history |-> request_history,
     current_filters_json |-> NoneV,
     result_count |-> NoneV]

AllTerminal == \A j \in 1..jobs_created : task[j].pc \in Terminal

RECURSIVE CallsUpTo(_)
CallsUpTo(j) == IF j = 0 THEN 0 ELSE Len(task[j].calls) + CallsUpTo(j - 1)

\* LLM calls issued so far, by all jobs
TotalCalls == CallsUpTo(jobs_created)

CreateJob(query_text, request_history) ==
    LET job_id == jobs_created + 1 IN
    /\ TotalCalls + max_iters <= MaxCalls
    /\ AllTerminal
    /\ store_job(job_id, NewJobData(query_text, request_history))
    /\ task' = [task EXCEPT ![job_id] =
                    [NoTask EXCEPT !.pc = "queued",
                                   !.query_text = query_text,
                                   !.existing = request_history]]
    /\ jobs_created' = job_id
    /\ UNCHANGED <<redis_ok, redis_results, results_ttl, RESULT_STORE>>

\* POST /search without conversation_history
CreateSearchJob == CreateJob("query", NoneV)

\* POST /search with the conversation_history of the latest job, as the
\* client read it from GET /jobs/<id>
ResumeSearchJob ==
    LET src == jobs_created IN
    /\ src > 0
    /\ task[src].pc \in Terminal
    /\ get_job(src) # NoneV
    /\ get_job(src)[1].conversation_history # NoneV
    /\ CreateJob("feedback", get_job(src)[1].conversation_history)

\* process_search_job up to its first LLM call (lines 233-268, then 302-303
\* or 449-468)
ProcessStart(job_id) ==
    LET t == task[job_id]
        conversation_history ==
            IF t.existing # NoneV
            THEN IF t.existing[1].steps = <<>>
                 THEN [t.existing[1] EXCEPT !.original_query = t.query_text]
                 ELSE t.existing[1]
            ELSE [original_query |-> t.query_text, steps |-> <<>>,
                  current_step |-> 0, total_auto_refinements |-> 0]
        job_data == [get_job(job_id)[1] EXCEPT
                        !.status = "RUNNING",
                        !.conversation_history = Some(conversation_history)]
        is_refinement == t.existing # NoneV /\ Len(t.existing[1].steps) > 0
        latest_step == conversation_history.steps[Len(conversation_history.steps)]
        first_call ==
            IF is_refinement
            THEN LLMCall(create_refine_prompt(conversation_history.original_query,
                                              latest_step.filters_json,
                                              latest_step.result_summary,
                                              Some(Text(t.query_text, 0, 0)),
                                              1, 3),
                         Some(conversation_history.steps))
            ELSE LLMCall(create_initial_prompt(t.query_text), NoneV)
    IN
    /\ t.pc = "queued"
    /\ get_job(job_id) # NoneV
    /\ store_job(job_id, job_data)
    /\ task' = [task EXCEPT ![job_id] =
                    [t EXCEPT !.pc = IF is_refinement THEN "llm_user" ELSE "llm_initial",
                              !.conversation_history = Some(conversation_history),
                              !.calls = <<first_call>>]]
    /\ UNCHANGED <<redis_ok, redis_results, results_ttl, RESULT_STORE, jobs_created>>

\* An except clause that records the error without its time
ExceptClause_NoFinishedAt(job_id, t, e, llm_raised) ==
    LET job_data == [get_job(job_id)[1] EXCEPT
                        !.status = "ERROR",
                        !.error_message = Some(e)]
    IN
    /\ store_job(job_id, job_data)
    /\ task' = [task EXCEPT ![job_id] =
                    [t EXCEPT !.pc = "failed",
                              !.llm_raised = llm_raised,
                              !.conversation_history =
                                  Some(LocalHistory(t, job_data)[1])]]

\* The except clause of process_search_job (lines 287-293)
ExceptClause(job_id, t, e, llm_raised) ==
    LET job_data == [get_job(job_id)[1] EXCEPT
                        !.status = "ERROR",
                        !.finished_at = Some("now"),
                        !.error_message = Some(e)]
    IN
    /\ store_job(job_id, job_data)
    /\ task' = [task EXCEPT ![job_id] =
                    [t EXCEPT !.pc = "failed",
                              !.llm_raised = llm_raised,
                              !.conversation_history =
                                  Some(LocalHistory(t, job_data)[1])]]

\* The head of the for loop of run_auto_refine_with_tracking at index i
\* (lines 326-343), entered with the step of the previous call appended to
\* job_data: either the next refinement call is issued, or the loop is left,
\* the auto_refine steps are recounted (375-379) and the function returns.
AutoLoopHead(job_id, t, job_data, filters, results, summary, i) ==
    LET count == results
        leave == AutoLoopLeaves(count, i)
        refine_prompt == create_refine_prompt(t.query_text, filters, summary,
                                              NoneV, i + 1, max_iters)
        stored == IF leave THEN UpdateTotalAutoRefinements(Reload(job_data))
                  ELSE job_data
    IN
    /\ store_job(job_id, stored)
    /\ task' = [task EXCEPT ![job_id] =
                    [t EXCEPT !.pc = IF leave THEN "completing" ELSE "llm_auto",
                              !.i = i,
                              !.current_filters = Some(filters),
                              !.current_results = results,
                              !.summary = Some(summary),
                              !.conversation_history = Some(LocalHistory(t, stored)[1]),
                              !.calls = IF leave THEN @
                                        ELSE Append(@, LLMCall(refine_prompt, NoneV))]]

\* The head of the for loop of run_user_refinement_with_auto_refine at index
\* i (lines 500-520), and lines 552-558 when the loop is left.
UserLoopHead(job_id, t, job_data, filters, results, summary, i) ==
    LET count == results
        leave == UserLoopLeaves(count, i)
        stored == IF leave THEN UpdateTotalAutoRefinements(Reload(job_data))
                  ELSE job_data
        conversation_history == LocalHistory(t, stored)[1]
        refine_prompt ==
            create_refine_prompt(
                conversation_history.original_query, filters, summary,
                Some(Text("Auto-refine iteration to reach 50-150 results", i + 1, count)),
                i + 2, USER_MAX_ITERATIONS + 1)
    IN
    /\ store_job(job_id, stored)
    /\ task' = [task EXCEPT ![job_id] =
                    [t EXCEPT !.pc = IF leave THEN "completing" ELSE "llm_auto_user",
                              !.i = i,
                              !.current_filters = Some(filters),
                              !.current_results = results,
                              !.summary = Some(summary),
                              !.conversation_history = Some(conversation_history),
                              !.calls = IF leave THEN @
                                        ELSE Append(@, LLMCall(refine_prompt,
                                                    Some(conversation_history.steps)))]]

\* run_auto_refine_with_tracking: the initial call returns (lines 303-331)
InitialReturns(job_id, filters_json) ==
    LET t == task[job_id]
        search_result == search(filters_json)
    IN
    /\ t.pc = "llm_initial"
    /\ get_job(job_id) # NoneV
    /\ IF IsRaise(search_result)
       THEN ExceptClause(job_id, t, search_result.raised, FALSE)
       ELSE AutoLoopHead(job_id, t,
                add_refinement_step(get_job(job_id)[1], "initial",
                    Text(t.query_text, 0, 0), filters_json,
                    search_result.results, search_result.summary),
                filters_json, search_result.results, search_result.summary, 0)
    /\ UNCHANGED <<redis_ok, redis_results, results_ttl, RESULT_STORE, jobs_created>>

\* run_auto_refine_with_tracking: a refinement call returns (lines 343-373)
AutoRefineReturns(job_id, refined_filters) ==
    LET t == task[job_id]
        refined_search == search(refined_filters)
    IN
    /\ t.pc = "llm_auto"
    /\ get_job(job_id) # NoneV
    /\ IF IsRaise(refined_search)
       THEN ExceptClause(job_id, t, refined_search.raised, FALSE)
       ELSE AutoLoopHead(job_id, t,
                add_refinement_step(get_job(job_id)[1], "auto_refine",
                    Text("Auto-refine iteration", t.i + 1, t.current_results),
                    refined_filters, refined_search.results,
                    refined_search.summary),
                refined_filters, refined_search.results,
                refined_search.summary, t.i + 1)
    /\ UNCHANGED <<redis_ok, redis_results, results_ttl, RESULT_STORE, jobs_created>>

\* run_user_refinement_with_auto_refine: the user-seeded call returns
\* (lines 468-506)
UserRefineReturns(job_id, initial_filters) ==
    LET t == task[job_id]
        initial_search == search(initial_filters)
    IN
    /\ t.pc = "llm_user"
    /\ get_job(job_id) # NoneV
    /\ IF IsRaise(initial_search)
       THEN ExceptClause(job_id, t, initial_search.raised, FALSE)
       ELSE UserLoopHead(job_id, t,
                add_refinement_step(get_job(job_id)[1], "user_refine",
                    Text(t.query_text, 0, 0), initial_filters,
                    initial_search.results, initial_search.summary),
                initial_filters, initial_search.results,
                initial_search.summary, 0)
    /\ UNCHANGED <<redis_ok, redis_results, results_ttl, RESULT_STORE, jobs_created>>

\* run_user_refinement_with_auto_refine: an automatic call returns
\* (lines 520-550)
UserAutoRefineReturns(job_id, refined_filters) ==
    LET t == task[job_id]
        refined_search == search(refined_filters)
    IN
    /\ t.pc = "llm_auto_user"
    /\ get_job(job_id) # NoneV
    /\ IF IsRaise(refined_search)
       THEN ExceptClause(job_id, t, refined_search.raised, FALSE)
       ELSE UserLoopHead(job_id, t,
                add_refinement_step(get_job(job_id)[1], "auto_refine",
                    Text("Auto-refine iteration after user feedback",
                         t.i + 1, t.current_results),
                    refined_filters, refined_search.results,
                    refined_search.summary),
                refined_filters, refined_search.results,
                refined_search.summary, t.i + 1)
    /\ UNCHANGED <<redis_ok, redis_results, results_ttl, RESULT_STORE, jobs_created>>

\* process_search_job lines 270-280: the turn returned; the job becomes DONE
CompleteJob(job_id) ==
    LET t == task[job_id]
        filters_json == t.current_filters[1]
        job_data == [get_job(job_id)[1] EXCEPT
                        !.status = "DONE",
                        !.finished_at = Some("now"),
                        !.current_filters_json = Some(filters_json),
                        !.result_count = Some(t.current_results)]
    IN
    /\ t.pc = "completing"
    /\ get_job(job_id) # NoneV
    /\ store_job(job_id, job_data)
    /\ task' = [task EXCEPT ![job_id].pc = "storing_results"]
    /\ UNCHANGED <<redis_ok, redis_results, results_ttl, RESULT_STORE, jobs_created>>

\* process_search_job line 281, with the api_results of line 271
StoreResults(job_id) ==
    LET t == task[job_id]
        api_results == convert_count(t.current_results, t.current_filters[1])
    IN
    /\ t.pc = "storing_results"
    /\ store_results(job_id, api_results)
    /\ task' = [task EXCEPT ![job_id].pc = "done"]
    /\ UNCHANGED <<redis_ok, redis_jobs, job_ttl, JOB_STORE, jobs_created>>

\* An awaited query_llm raises e: control passes to the except clause
LLMRaises(job_id, e) ==
    /\ task[job_id].pc \in Awaiting
    /\ get_job(job_id) # NoneV
    /\ ExceptClause(job_id, task[job_id], e, TRUE)
    /\ UNCHANGED <<redis_ok, redis_results, results_ttl, RESULT_STORE, jobs_created>>

----------------------------------------------------------------------------
(* main.py: the rate limiter of /search *)

\* Requests to /search explored, over all clients
MaxRequests == 5

\* Limits of check_rate_limit
MINUTE_LIMIT == 3
HOUR_LIMIT == 30
DAY_LIMIT == 100

\* request.client.host of the client, and the worker processes (WORKER_ID)
ClientIps == {"10.0.0.1"}
Workers == {"worker-a", "worker-b"}

\* The three counters of one client; a key that does not exist reads as 0
\* (int(redis_client.get(key) or 0))
NoCounts == [minute |-> 0, hour |-> 0, day |-> 0]

\* A worker that is not inside check_rate_limit
NoCheck == [pc |-> "idle", client_ip |-> "", minute_count |-> 0, hour_count |-> 0, day_count |-> 0, is_rate_limited |-> FALSE, requests |-> 0]

\* The outcome of the three comparisons of check_rate_limit
limit_exceeded(minute_count, hour_count, day_count) ==
    \/ minute_count >= MINUTE_LIMIT
    \/ hour_count >= HOUR_LIMIT
    \/ day_count >= DAY_LIMIT

\* The pipeline of check_rate_limit: the three INCR and EXPIRE commands,
\* executed as one transaction
pipe_execute(counts) ==
    [minute |-> counts.minute + 1, hour |-> counts.hour + 1, day |-> counts.day + 1]

----------------------------------------------------------------------------
(* The state of each specification while another one runs *)

StoreIdle == last_stored = [j \in JobIds |-> NoneV]

LimitIdle ==
    /\ rate_limit = [ip \in ClientIps |-> NoCounts]
    /\ worker = [w \in Workers |-> NoCheck]
    /\ admitted = [ip \in ClientIps |-> NoCounts]

CtlIdle ==
    /\ redis_ok = FALSE
    /\ redis_jobs = [j \in JobIds |-> NoneV]
    /\ redis_results = [j \in JobIds |-> NoneV]
    /\ job_ttl = [j \in JobIds |-> 0]
    /\ results_ttl = [j \in JobIds |-> 0]
    /\ JOB_STORE = [j \in JobIds |-> NoneV]
    /\ RESULT_STORE = [j \in JobIds |-> NoneV]
    /\ task = [j \in JobIds |-> NoTask]
    /\ jobs_created = 0
    /\ StoreIdle
    /\ LimitIdle

RankIdle == scored = <<>> /\ api_out = NoneV
FilterIdle ==
    /\ main_df = <<>>
    /\ filters_object = NoneV
    /\ combined_filter = NoneV
    /\ filtered_results = NoneV
    /\ summary_out = NoneV

Init ==
    /\ redis_ok \in BOOLEAN
    /\ redis_jobs = [j \in JobIds |-> NoneV]
    /\ redis_results = [j \in JobIds |-> NoneV]
    /\ JOB_STORE = [j \in JobIds |-> NoneV]
    /\ RESULT_STORE = [j \in JobIds |-> NoneV]
    /\ job_ttl = [j \in JobIds |-> 0]
    /\ results_ttl = [j \in JobIds |-> 0]
    /\ task = [j \in JobIds |-> NoTask]
    /\ jobs_created = 0
    /\ StoreIdle
    /\ LimitIdle
    /\ RankIdle
    /\ FilterIdle

Next ==
    \/ (CreateSearchJob /\ UNCHANGED <<rankVars, filterVars, storeVars, limitVars>>)
    \/ (ResumeSearchJob /\ UNCHANGED <<rankVars, filterVars, storeVars, limitVars>>)
    \/ \E job_id \in JobIds :
        \/ (ProcessStart(job_id) /\ UNCHANGED <<rankVars, filterVars, storeVars, limitVars>>)
        \/ (CompleteJob(job_id) /\ UNCHANGED <<rankVars, filterVars, storeVars, limitVars>>)
        \/ (StoreResults(job_id) /\ UNCHANGED <<rankVars, filterVars, storeVars, limitVars>>)
        \/ \E filters_json \in LLMResponses :
            \/ (InitialReturns(job_id, filters_json) /\ UNCHANGED <<rankVars, filterVars, storeVars, limitVars>>)
            \/ (AutoRefineReturns(job_id, filters_json) /\ UNCHANGED <<rankVars, filterVars, storeVars, limitVars>>)
            \/ (UserRefineReturns(job_id, filters_json) /\ UNCHANGED <<rankVars, filterVars, storeVars, limitVars>>)
            \/ (UserAutoRefineReturns(job_id, filters_json) /\ UNCHANGED <<rankVars, filterVars, storeVars, limitVars>>)
        \/ \E e \in LLMErrors :
            (LLMRaises(job_id, e) /\ UNCHANGED <<rankVars, filterVars, storeVars, limitVars>>)

Spec == Init /\ [][Next]_vars

----------------------------------------------------------------------------
(* music_service.py: convert_to_api_results (RankSpec)                     *)
(* A scored result set is the sequence of its relevance scores in catalog  *)
(* order; a row is named by its position in that sequence.                 *)

\* Rows of the exhaustively enumerated result sets
MaxRows == 4

ScoreValues == -1..1

RECURSIVE Perms(_)
\* All orders of the rows in S
Perms(S) ==
    IF S = {} THEN {<<>>}
    ELSE UNION {{<<r>> \o rest : rest \in Perms(S \ {r})} : r \in S}

RECURSIVE DescendingOrders(_, _)
\* The orders of rows that are descending by score
DescendingOrders(df, rows) ==
    IF rows = {} THEN {<<>>}
    ELSE LET top == CHOOSE r \in rows : \A q \in rows : df[q] <= df[r]
             ties == {r \in rows : df[r] = df[top]}
         IN UNION {{first \o rest : rest \in DescendingOrders(df, rows \ ties)}
                      : first \in Perms(ties)}

\* DataFrame.sort_values("relevance_score", ascending=False) with the
\* default kind="quicksort": descending by score, and the relative order of
\* rows with equal scores is whatever the sort of the build leaves (it is
\* not a stable sort)
sort_values_desc(df) ==
    IF \A q \in 1..Len(df) : \A r \in 1..Len(df) : df[q] = df[r] => q = r
    THEN \* no two rows tie: the row at position k has k - 1 rows above it
         {[k \in 1..Len(df) |->
             CHOOSE r \in 1..Len(df) :
                Cardinality({q \in 1..Len(df) : df[q] > df[r]}) = k - 1]}
    ELSE DescendingOrders(df, 1..Len(df))

\* .head(n)
head(order, n) == SubSeq(order, 1, Min(Len(order), n))

\* convert_to_api_results for one outcome of the sort
convert_to_api_results(results_df, order) ==
    LET top_results == head(order, API_RESULT_LIMIT) IN
    [result_count |-> Len(results_df),
     tracks |-> [idx \in 1..Len(top_results) |->
                    [row |-> top_results[idx],
                     relevance_score |-> results_df[top_results[idx]],
                     rank_position |-> idx]]]

\* The result sets explored: every one of up to MaxRows rows, and two with
\* pairwise different scores around the limit of 150
ScoredSets ==
    UNION {[1..n -> ScoreValues] : n \in 0..MaxRows}
    \cup {[r \in 1..n |-> r] : n \in {API_RESULT_LIMIT, API_RESULT_LIMIT + 1}}
    \cup {[r \in 1..n |-> n - r] : n \in {API_RESULT_LIMIT + 1}}

RankInit ==
    /\ scored \in ScoredSets
    /\ api_out = NoneV
    /\ CtlIdle
    /\ FilterIdle

ConvertToApiResults ==
    /\ api_out = NoneV
    /\ \E order \in sort_values_desc(scored) :
          api_out' = Some(convert_to_api_results(scored, order))
    /\ UNCHANGED <<scored, ctlVars, filterVars>>

RankNext == ConvertToApiResults

RankSpec == RankInit /\ [][RankNext]_vars

----------------------------------------------------------------------------
(* music_service.py: llm_to_filters (FilterSpec)                           *)
(* The catalog main_df is a sequence of rows, a row a record of its        *)
(* columns; the filter parameters are a record of Optional values.         *)

deciles_features_list ==
    <<"danceability", "energy", "acousticness", "liveness", "valence", "views">>

direct_use_features == <<"loudness", "tempo", "duration_ms", "instrumentalness">>

minmax_only_features == <<"album_release_year", "track_is_explicit">>

Range(seq) == {seq[k] : k \in 1..Len(seq)}

\* Deciles explored: 1..MaxDecile (the catalog's are 1..10)
MaxDecile == 3

DecileVals == 1..MaxDecile

\* Raw values lie on another scale than the decile derived from them
RawVals == {10 * d : d \in DecileVals}

DecileOf(raw) == raw \div 10

RECURSIVE split(_)
\* str.split(",")
split(s) ==
    IF \E k \in 1..Len(s) : SubSeq(s, k, k) = ","
    THEN LET k == CHOOSE i \in 1..Len(s) :
                     /\ SubSeq(s, i, i) = ","
                     /\ \A h \in 1..(i - 1) : SubSeq(s, h, h) # ","
         IN <<SubSeq(s, 1, k - 1)>> \o split(SubSeq(s, k + 1, Len(s)))
    ELSE <<s>>

RECURSIVE strip(_)
\* str.strip(), the white space being blanks
strip(t) ==
    IF Len(t) > 0 /\ SubSeq(t, 1, 1) = " " THEN strip(SubSeq(t, 2, Len(t)))
    ELSE IF Len(t) > 0 /\ SubSeq(t, Len(t), Len(t)) = " "
         THEN strip(SubSeq(t, 1, Len(t) - 1))
         ELSE t

\* _split_terms: [t.strip() for t in s.split(",")] if s else []
_split_terms(s) ==
    IF s = "" THEN <<>>
    ELSE LET parts == split(s) IN [k \in 1..Len(parts) |-> strip(parts[k])]

\* A match of whole genre tokens in place of the substring test
contains_WholeToken(g, term) ==
    g # "" /\ \E k \in 1..Len(split(g)) : strip(split(g)[k]) = term

\* term in g
contains(g, term) ==
    \E k \in 1..(Len(g) - Len(term) + 1) : SubSeq(g, k, k + Len(term) - 1) = term

\* .fillna("")
fillna(g) == IF g = NoneV THEN "" ELSE g[1]

\* The column a direct-use clause reads, with the decile column in its place
raw_column_Decile(feature) ==
    IF feature \in Range(direct_use_features) THEN feature \o "_decile" ELSE feature

\* self.main_df[feature]
raw_column(feature) == feature

RECURSIVE decile_clauses_Outside(_, _, _, _)
\* The decile loop keeping the rows whose decile lies outside [min, max]
decile_clauses_Outside(df, fo, k, mask) ==
    IF k > Len(deciles_features_list) THEN mask
    ELSE LET feature == deciles_features_list[k]
             lo == fo[feature \o "_min_decile"]
             hi == fo[feature \o "_max_decile"]
         IN decile_clauses_Outside(df, fo, k + 1,
                IF lo # NoneV /\ hi # NoneV
                THEN [r \in 1..Len(df) |->
                        /\ mask[r]
                        /\ (\/ df[r][feature \o "_decile"] < lo[1]
                            \/ df[r][feature \o "_decile"] > hi[1])]
                ELSE mask)

RECURSIVE decile_clauses(_, _, _, _)
\* for feature in self.deciles_features_list, from the k-th on
decile_clauses(df, fo, k, mask) ==
    IF k > Len(deciles_features_list) THEN mask
    ELSE LET feature == deciles_features_list[k]
             lo == fo[feature \o "_min_decile"]
             hi == fo[feature \o "_max_decile"]
         IN decile_clauses(df, fo, k + 1,
                IF lo # NoneV /\ hi # NoneV
                THEN [r \in 1..Len(df) |->
                        /\ mask[r]
                        /\ df[r][feature \o "_decile"] >= lo[1]
                        /\ df[r][feature \o "_decile"] <= hi[1]]
                ELSE mask)

RECURSIVE minmax_clauses(_, _, _, _, _)
\* for feature in self.direct_use_features + self.minmax_only_features
minmax_clauses(df, fo, features, k, mask) ==
    IF k > Len(features) THEN mask
    ELSE LET feature == features[k]
             lo == fo[feature \o "_min"]
             hi == fo[feature \o "_max"]
         IN minmax_clauses(df, fo, features, k + 1,
                IF lo # NoneV /\ hi # NoneV
                THEN [r \in 1..Len(df) |->
                        /\ mask[r]
                        /\ df[r][raw_column(feature)] >= lo[1]
                        /\ df[r][raw_column(feature)] <= hi[1]]
                ELSE mask)

\* if filters_object[key] and len(filters_object[key]) > 0
Truthy(text) == text # NoneV /\ text[1] # "" /\ Len(text[1]) > 0

include_clause(df, fo, mask) ==
    IF Truthy(fo.spotify_artist_genres_include_any)
    THEN LET included_terms == _split_terms(fo.spotify_artist_genres_include_any[1]) IN
         IF included_terms # <<>>
         THEN [r \in 1..Len(df) |->
                 /\ mask[r]
                 /\ \E term \in Range(included_terms) :
                       contains(fillna(df[r].spotify_artist_genres), term)]
         ELSE mask
    ELSE mask

exclude_clause(df, fo, mask) ==
    IF Truthy(fo.spotify_artist_genres_exclude_any)
    THEN LET excluded_terms == _split_terms(fo.spotify_artist_genres_exclude_any[1]) IN
         IF excluded_terms # <<>>
         THEN [r \in 1..Len(df) |->
                 /\ mask[r]
                 /\ ~ \E term \in Range(excluded_terms) :
                         contains(fillna(df[r].spotify_artist_genres), term)]
         ELSE mask
    ELSE mask

\* filters_object is response_json itself
llm_to_filters(df, response_json) ==
    LET all_rows == [r \in 1..Len(df) |-> TRUE]
        after_deciles == decile_clauses(df, response_json, 1, all_rows)
        after_minmax == minmax_clauses(df, response_json,
                            direct_use_features \o minmax_only_features, 1,
                            after_deciles)
        after_include == include_clause(df, response_json, after_minmax)
    IN exclude_clause(df, response_json, after_include)

\* Columns of a catalog row and keys of the filter parameters
DecileColumns == {f \o "_decile" : f \in Range(deciles_features_list)}

RawColumns == Range(direct_use_features) \cup Range(minmax_only_features)

\* A row whose decile for feature fd is d, whose raw value for feature fr
\* is raw, and whose genre text is g
Row(fd, d, fr, raw, g) ==
    [c \in DecileColumns |-> IF c = fd \o "_decile" THEN d ELSE 1]
    @@ [c \in RawColumns |-> IF c = fr THEN raw ELSE 10]
    @@ [c \in {f \o "_decile" : f \in Range(direct_use_features)} |->
           IF c = fr \o "_decile" THEN DecileOf(raw) ELSE DecileOf(10)]
    @@ [spotify_artist_genres |-> g]

\* The filter parameters with bounds for features fd and fr only
Params(fd, dlo, dhi, fr, rlo, rhi, inc, exc) ==
    [c \in {f \o "_min_decile" : f \in Range(deciles_features_list)} |->
        IF c = fd \o "_min_decile" THEN dlo ELSE NoneV]
    @@ [c \in {f \o "_max_decile" : f \in Range(deciles_features_list)} |->
        IF c = fd \o "_max_decile" THEN dhi ELSE NoneV]
    @@ [c \in {f \o "_min" : f \in RawColumns} |->
        IF c = fr \o "_min" THEN rlo ELSE NoneV]
    @@ [c \in {f \o "_max" : f \in RawColumns} |->
        IF c = fr \o "_max" THEN rhi ELSE NoneV]
    @@ [spotify_artist_genres_include_any |-> inc,
        spotify_artist_genres_exclude_any |-> exc]

GenreTexts == {NoneV, Some("jazz"), Some("k-pop")}

IncludeTexts == {NoneV, Some(""), Some(" pop, folk")}

ExcludeTexts == {NoneV, Some("jazz")}

FilterInit ==
    /\ \E fd \in Range(deciles_features_list), fr \in RawColumns :
          /\ \E dlo \in {NoneV, Some(2)}, dhi \in {NoneV, Some(MaxDecile - 1)},
                rlo \in {NoneV, Some(20)}, rhi \in {NoneV, Some(10 * (MaxDecile - 1))},
                inc \in IncludeTexts, exc \in ExcludeTexts :
                filters_object = Some(Params(fd, dlo, dhi, fr, rlo, rhi, inc, exc))
          /\ \E d \in DecileVals, raw \in RawVals, g \in GenreTexts :
                main_df = <<Row(fd, d, fr, raw, g)>>
    /\ combined_filter = NoneV
    /\ filtered_results = NoneV
    /\ summary_out = NoneV
    /\ CtlIdle
    /\ RankIdle

LlmToFilters ==
    /\ combined_filter = NoneV
    /\ filters_object # NoneV
    /\ combined_filter' = Some(llm_to_filters(main_df, filters_object[1]))
    /\ UNCHANGED <<main_df, filters_object, filtered_results, summary_out, ctlVars, rankVars>>

FilterNext == LlmToFilters

FilterSpec == FilterInit /\ [][FilterNext]_vars

----------------------------------------------------------------------------
(* models.py: create_filters_model, and llm_to_filters on a parameter      *)
(* object that carries the schema defaults (DefaultSpec)                   *)

AllFeatures ==
    Range(deciles_features_list) \cup Range(direct_use_features)
        \cup Range(minmax_only_features)

\* The key of a feature's lower and upper bound
min_key(feature) ==
    IF feature \in Range(deciles_features_list)
    THEN feature \o "_min_decile" ELSE feature \o "_min"

max_key(feature) ==
    IF feature \in Range(deciles_features_list)
    THEN feature \o "_max_decile" ELSE feature \o "_max"

\* The default of each bound in FiltersModel (instrumentalness: 0.0 and 1.0)
default_min(feature) ==
    CASE feature \in Range(deciles_features_list) -> 0
      [] feature = "instrumentalness" -> 0
      [] feature \in Range(direct_use_features) -> -100
      [] feature = "album_release_year" -> 1900
      [] feature = "track_is_explicit" -> 0

default_max(feature) ==
    CASE feature \in Range(deciles_features_list) -> 10
      [] feature = "instrumentalness" -> 1
      [] feature \in Range(direct_use_features) -> 99999999
      [] feature = "album_release_year" -> 2025
      [] feature = "track_is_explicit" -> 1

\* The column of main_df a feature's range clause reads
clause_column(feature) ==
    IF feature \in Range(deciles_features_list)
    THEN feature \o "_decile" ELSE raw_column(feature)

\* Values a catalog holds in a column: both ends of the decile scale, of
\* the loudness, tempo, duration and instrumentalness scales, both values
\* of the explicit flag, and release years around the first and the last
\* year of the schema
catalog_values(feature) ==
    CASE feature \in Range(deciles_features_list) -> {1, 10}
      [] feature = "loudness" -> {-60, 0}
      [] feature = "tempo" -> {0, 250}
      [] feature = "duration_ms" -> {1000, 3600000}
      [] feature = "instrumentalness" -> {0, 1}
      [] feature = "album_release_year" -> {1899, 1900, 2025, 2026}
      [] feature = "track_is_explicit" -> {0, 1}

\* A catalog row with a middle value in every column
typical_row ==
    [c \in DecileColumns \cup {f \o "_decile" : f \in Range(direct_use_features)} |-> 5]
    @@ [loudness |-> -10, tempo |-> 120, duration_ms |-> 200000,
        instrumentalness |-> 0, album_release_year |-> 2000,
        track_is_explicit |-> 0, spotify_artist_genres |-> Some("jazz")]

\* The bounds of a parameter object: every pair absent, or every pair at
\* its default
bounds_absent ==
    [c \in {min_key(f) : f \in AllFeatures} \cup {max_key(f) : f \in AllFeatures} |-> NoneV]

bounds_default ==
    [c \in {min_key(f) : f \in AllFeatures} |->
        Some(default_min(CHOOSE f \in AllFeatures : min_key(f) = c))]
    @@ [c \in {max_key(f) : f \in AllFeatures} |->
        Some(default_max(CHOOSE f \in AllFeatures : max_key(f) = c))]

\* The parameter object with one feature's pair set
with_bounds(fo, feature, lo, hi) ==
    [fo EXCEPT ![min_key(feature)] = lo, ![max_key(feature)] = hi]

DefaultInit ==
    /\ \E feature \in AllFeatures :
          /\ \E others \in {bounds_absent, bounds_default},
                inc \in {NoneV, Some("")}, exc \in {Some(""), Some("rock")} :
                filters_object =
                    Some(with_bounds(others, feature, Some(default_min(feature)),
                                     Some(default_max(feature)))
                         @@ [spotify_artist_genres_include_any |-> inc,
                             spotify_artist_genres_exclude_any |-> exc])
          /\ \E v \in catalog_values(feature) :
                main_df = <<[typical_row EXCEPT ![clause_column(feature)] = v]>>
    /\ combined_filter = NoneV
    /\ filtered_results = NoneV
    /\ summary_out = NoneV
    /\ CtlIdle
    /\ RankIdle

DefaultNext == LlmToFilters

DefaultSpec == DefaultInit /\ [][DefaultNext]_vars

----------------------------------------------------------------------------
(* llm_to_filters on the genre lists alone (GenreSpec): every range pair   *)
(* is absent, the catalog has two rows                                     *)

\* Values of the spotify_artist_genres column: unknown (NaN), empty, and
\* comma-joined genre names
genre_column_values == {NoneV, Some(""), Some("k-pop, dance"), Some("rock")}

\* Values of spotify_artist_genres_include_any
include_lists ==
    {NoneV, Some(""), Some("pop"), Some("Pop"), Some("pop,"), Some(" "),
     Some("jazz, rock")}

\* Values of spotify_artist_genres_exclude_any
exclude_lists == {NoneV, Some(""), Some("pop"), Some("rock, metal")}

GenreInit ==
    /\ \E g1 \in genre_column_values, g2 \in genre_column_values :
          main_df = <<[typical_row EXCEPT !.spotify_artist_genres = g1],
                      [typical_row EXCEPT !.spotify_artist_genres = g2]>>
    /\ \E inc \in include_lists, exc \in exclude_lists :
          filters_object =
              Some(bounds_absent
                   @@ [spotify_artist_genres_include_any |-> inc,
                       spotify_artist_genres_exclude_any |-> exc])
    /\ combined_filter = NoneV
    /\ filtered_results = NoneV
    /\ summary_out = NoneV
    /\ CtlIdle
    /\ RankIdle

GenreNext == LlmToFilters

GenreSpec == GenreInit /\ [][GenreNext]_vars

----------------------------------------------------------------------------
(* music_service.py: filters_to_results_df (ScoreSpec)                     *)
(* A row of the frame it returns is the catalog row with its index in      *)
(* main_df, its relevance_score and, when there are boost terms, its       *)
(* genre_boost_hits.                                                       *)

GENRE_BOOST_POINTS == 50

\* if filters_object[feature+'_decile_weight']: None and 0 are falsy
weight_of(fo, feature) ==
    LET w == fo[feature \o "_decile_weight"] IN
    IF w = NoneV THEN 0 ELSE w[1]

\* The column a weight multiplies, with the raw column in its place
score_column_Raw(feature) ==
    IF feature \in Range(direct_use_features) THEN feature ELSE feature \o "_decile"

\* filtered_results[feature+'_decile']
score_column(feature) == feature \o "_decile"

RECURSIVE weighted_sum(_, _, _, _)
\* relevance_score += filtered_results[feature+'_decile'] * weight, for the
\* features from the k-th on
weighted_sum(row, fo, features, k) ==
    IF k > Len(features) THEN 0
    ELSE (IF weight_of(fo, features[k]) # 0
          THEN row[score_column(features[k])] * weight_of(fo, features[k])
          ELSE 0)
         + weighted_sum(row, fo, features, k + 1)

\* self._split_terms(filters_object.get('spotify_artist_genres_boosted', ''))
boost_terms_of(fo) ==
    LET s == get(fo, "spotify_artist_genres_boosted", Some("")) IN
    IF s = NoneV THEN <<>> ELSE _split_terms(s[1])

\* sum(term in g for term in boost_terms)
genre_boost_hits(g, boost_terms) ==
    Cardinality({k \in 1..Len(boost_terms) : contains(g, boost_terms[k])})

RECURSIVE select_rows(_, _)
\* self.main_df[combined_filter]: the indices of the rows the mask keeps,
\* in catalog order, the first k rows considered
select_rows(mask, k) ==
    IF k = 0 THEN <<>>
    ELSE select_rows(mask, k - 1) \o (IF mask[k] THEN <<k>> ELSE <<>>)

filters_to_results_df(df, mask, fo) ==
    LET kept == select_rows(mask, Len(df))
        boost_terms == boost_terms_of(fo)
        base(r) ==
            weighted_sum(df[r], fo, deciles_features_list, 1)
            + weighted_sum(df[r], fo, direct_use_features, 1)
        hits(r) == genre_boost_hits(fillna(df[r].spotify_artist_genres), boost_terms)
    IN [n \in 1..Len(kept) |->
          IF boost_terms # <<>>
          THEN df[kept[n]] @@ [index |-> kept[n],
                               genre_boost_hits |-> hits(kept[n]),
                               relevance_score |->
                                   base(kept[n]) + GENRE_BOOST_POINTS * hits(kept[n])]
          ELSE df[kept[n]] @@ [index |-> kept[n],
                               relevance_score |-> base(kept[n])]]

\* The weight keys of FiltersModel, every weight at its default 0
weights_default ==
    [c \in {f \o "_decile_weight" :
              f \in Range(deciles_features_list) \cup Range(direct_use_features)} |->
        Some(0)]

\* Values of a weight: absent, the default, inside and outside -100..100
weight_values == {NoneV, Some(3), Some(-150)}

\* Values of spotify_artist_genres_boosted
boost_lists == {NoneV, Some(""), Some("pop, rock, dance"), Some("rock,")}

ScoreInit ==
    /\ \E fd \in Range(deciles_features_list), fr \in Range(direct_use_features) :
          /\ \E wd \in weight_values, wr \in {Some(0), Some(3)},
                boosted \in boost_lists, inc \in {Some(""), Some("rock")} :
                filters_object =
                    Some(bounds_absent
                         @@ [weights_default EXCEPT ![fd \o "_decile_weight"] = wd,
                                                    ![fr \o "_decile_weight"] = wr]
                         @@ [spotify_artist_genres_include_any |-> inc,
                             spotify_artist_genres_exclude_any |-> NoneV,
                             spotify_artist_genres_boosted |-> boosted])
          /\ \E d \in {1, 10}, dr \in {1, 10},
                g1 \in {NoneV, Some("k-pop, dance"), Some("rock")},
                g2 \in {Some(""), Some("k-pop, dance"), Some("rock")} :
                main_df = <<[typical_row EXCEPT ![fd \o "_decile"] = d,
                                                ![fr \o "_decile"] = dr,
                                                !.spotify_artist_genres = g1],
                            [typical_row EXCEPT !.spotify_artist_genres = g2]>>
    /\ combined_filter = NoneV
    /\ filtered_results = NoneV
    /\ summary_out = NoneV
    /\ CtlIdle
    /\ RankIdle

FiltersToResultsDf ==
    /\ combined_filter # NoneV
    /\ filtered_results = NoneV
    /\ filtered_results' =
          Some(filters_to_results_df(main_df, combined_filter[1], filters_object[1]))
    /\ UNCHANGED <<main_df, filters_object, combined_filter, summary_out, ctlVars,
                   rankVars>>

ScoreNext == LlmToFilters \/ FiltersToResultsDf

ScoreSpec == ScoreInit /\ [][ScoreNext]_vars

----------------------------------------------------------------------------
(* music_service.py: make_summary (SummarySpec)                            *)
(* The frame given to make_summary is a sequence of scored rows in catalog *)
(* order.                                                                  *)

\* make_summary(df, top_k=5)
TOP_K == 5

\* The columns of EXAMPLE_COLS the modelled rows have
example_cols(row) ==
    [spotify_artist_genres |-> row.spotify_artist_genres,
     album_release_year |-> row.album_release_year,
     relevance_score |-> row.relevance_score,
     index |-> row.index]

\* df["relevance_score"].median(), as a fraction
median(df, order) ==
    LET n == Len(df) IN
    IF n % 2 = 1
    THEN [num |-> df[order[(n + 1) \div 2]].relevance_score, den |-> 1]
    ELSE [num |-> df[order[n \div 2]].relevance_score
                     + df[order[(n \div 2) + 1]].relevance_score,
          den |-> 2]

\* df["spotify_artist_genres"].str.split(",").explode().str.strip(): the
\* genre tokens of the rows that have a genre text
genre_tokens(df) ==
    UNION {Range(_split_terms(df[r].spotify_artist_genres[1])) :
              r \in {q \in 1..Len(df) : df[q].spotify_artist_genres \notin {NoneV, Some("")}}}

\* The summary with the statistics taken of an empty frame too
make_summary_NoEmptyCase(df, order, top_k) ==
    [result_count |-> Len(df),
     top_examples |-> [k \in 1..Min(Len(df), top_k) |-> example_cols(df[order[k]])],
     top_genres_found |-> genre_tokens(df)]

\* make_summary, for one outcome `order` of
\* df.sort_values("relevance_score", ascending=False); the frames explored
\* hold at most five different genre tokens, so that value_counts().head(5)
\* names them all (as a set: their order is not modelled)
make_summary(df, order, top_k) ==
    LET top == [k \in 1..Min(Len(df), top_k) |-> df[order[k]]] IN
    IF Len(df) = 0
    THEN [result_count |-> Len(df)]
    ELSE [result_count |-> Len(df),
          top_examples |-> [k \in 1..Len(top) |-> example_cols(top[k])],
          score_stats |->
              [min |-> df[order[Len(df)]].relevance_score,
               median |-> median(df, order),
               max |-> df[order[1]].relevance_score],
          year_range |->
              [min |-> CHOOSE y \in {df[r].album_release_year : r \in 1..Len(df)} :
                          \A r \in 1..Len(df) : y <= df[r].album_release_year,
               max |-> CHOOSE y \in {df[r].album_release_year : r \in 1..Len(df)} :
                          \A r \in 1..Len(df) : y >= df[r].album_release_year],
          top_genres_found |-> genre_tokens(df)]

\* The scored frame with the given relevance scores
frame_of(scores) ==
    [r \in 1..Len(scores) |->
        [index |-> r,
         relevance_score |-> scores[r],
         album_release_year |-> 2000 + (r % 3),
         spotify_artist_genres |-> IF r % 2 = 0 THEN NoneV ELSE Some("rock, pop")]]

\* The frames explored: every one of up to MaxRows rows, and frames of
\* TOP_K to TOP_K + 2 rows, without ties and with them
SummaryFrames ==
    UNION {[1..n -> ScoreValues] : n \in 0..MaxRows}
    \cup {[r \in 1..n |-> r] : n \in TOP_K..(TOP_K + 2)}
    \cup {[r \in 1..(TOP_K + 1) |-> r % 2]}

SummaryInit ==
    /\ \E scores \in SummaryFrames : filtered_results = Some(frame_of(scores))
    /\ summary_out = NoneV
    /\ main_df = <<>>
    /\ filters_object = NoneV
    /\ combined_filter = NoneV
    /\ CtlIdle
    /\ RankIdle

MakeSummary ==
    /\ filtered_results # NoneV
    /\ summary_out = NoneV
    /\ LET df == filtered_results[1] IN
       \E order \in sort_values_desc([r \in 1..Len(df) |-> df[r].relevance_score]) :
          summary_out' = Some(make_summary(df, order, TOP_K))
    /\ UNCHANGED <<main_df, filters_object, combined_filter, filtered_results,
                   ctlVars, rankVars>>

SummaryNext == MakeSummary

SummarySpec == SummaryInit /\ [][SummaryNext]_vars

----------------------------------------------------------------------------
(* music_service.py: MusicService.search on a parameter object that may    *)
(* lack keys (MalformedSpec). json.loads of the LLM response is a plain    *)
(* dict: a key the response leaves out is absent from it.                  *)

RECURSIVE bound_reads(_, _, _)
\* The keys the two range loops of llm_to_filters look up, in order: the
\* min key of every feature, and the max key when the min is not None
bound_reads(fo, features, k) ==
    IF k > Len(features) THEN <<>>
    ELSE LET feature == features[k] IN
         <<min_key(feature)>>
         \o (IF min_key(feature) \in DOMAIN fo /\ fo[min_key(feature)] = NoneV
             THEN <<>> ELSE <<max_key(feature)>>)
         \o bound_reads(fo, features, k + 1)

\* The keys llm_to_filters looks up with filters_object[key]
filter_reads(fo) ==
    bound_reads(fo, deciles_features_list \o direct_use_features
                        \o minmax_only_features, 1)
    \o <<"spotify_artist_genres_include_any", "spotify_artist_genres_exclude_any">>

\* The keys filters_to_results_df looks up with filters_object[key]
score_reads ==
    [k \in 1..(Len(deciles_features_list) + Len(direct_use_features)) |->
        (deciles_features_list \o direct_use_features)[k] \o "_decile_weight"]

\* filters_object[key] of an absent key raises KeyError: the first such
\* look-up among reads, if any
key_error(fo, reads) ==
    IF \E k \in 1..Len(reads) : reads[k] \notin DOMAIN fo
    THEN LET k == CHOOSE i \in 1..Len(reads) :
                     /\ reads[i] \notin DOMAIN fo
                     /\ \A h \in 1..(i - 1) : reads[h] \in DOMAIN fo
         IN Some(Raise("KeyError: " \o reads[k]))
    ELSE NoneV

\* dict without one key
without_key(fo, key) == [c \in DOMAIN fo \ {key} |-> fo[c]]

\* A parameter object with every key of the range, weight and genre fields
complete_objects ==
    {bounds @@ [weights_default EXCEPT !["energy_decile_weight"] = Some(3)]
            @@ [spotify_artist_genres_include_any |-> Some(""),
                spotify_artist_genres_exclude_any |-> Some(""),
                spotify_artist_genres_boosted |-> Some("")] :
        bounds \in {bounds_absent, bounds_default}
                   \cup {with_bounds(bounds_default, f, Some(default_max(f)),
                                     Some(default_min(f))) :
                            f \in {"energy", "tempo"}}}

MalformedInit ==
    /\ \E fo \in complete_objects :
          \/ filters_object = Some(fo)
          \/ \E key \in DOMAIN fo : filters_object = Some(without_key(fo, key))
    /\ main_df = <<typical_row, [typical_row EXCEPT !.energy_decile = 10]>>
    /\ combined_filter = NoneV
    /\ filtered_results = NoneV
    /\ summary_out = NoneV
    /\ CtlIdle
    /\ RankIdle

\* MusicService.search: llm_to_filters, filters_to_results_df, make_summary;
\* an exception of one of them leaves search, and is kept in summary_out
SearchCatalog ==
    /\ filters_object # NoneV
    /\ summary_out = NoneV
    /\ LET fo == filters_object[1] IN
       IF key_error(fo, filter_reads(fo)) # NoneV
       THEN /\ summary_out' = key_error(fo, filter_reads(fo))
            /\ UNCHANGED <<combined_filter, filtered_results>>
       ELSE /\ combined_filter' = Some(llm_to_filters(main_df, fo))
            /\ IF key_error(fo, score_reads) # NoneV
               THEN /\ summary_out' = key_error(fo, score_reads)
                    /\ UNCHANGED filtered_results
               ELSE LET df == filters_to_results_df(main_df,
                                  llm_to_filters(main_df, fo), fo)
                    IN /\ filtered_results' = Some(df)
                       /\ \E order \in sort_values_desc(
                                [r \in 1..Len(df) |-> df[r].relevance_score]) :
                             summary_out' = Some(make_summary(df, order, TOP_K))
    /\ UNCHANGED <<main_df, filters_object, ctlVars, rankVars>>

MalformedNext == SearchCatalog

MalformedSpec == MalformedInit /\ [][MalformedNext]_vars

----------------------------------------------------------------------------
(* StoreSpec: storage.py while Redis comes and goes and its keys expire *)

\* The job ids the store specification writes; the other ids are never stored
StoredIds == {1}

\* Seconds that pass in one step of time: the shorter of the two lifetimes
ELAPSE_SECONDS == RESULTS_TTL_SECONDS

\* get_job_status lines 95-117: the response built from the stores, or the
\* database fallback of lines 119-124 when job_exists is false
get_job_status(job_id) ==
    IF job_exists(job_id)
    THEN LET job_data == get_job(job_id)[1] IN
         [served_from |-> "store",
          status |-> job_data.status,
          query_text |-> job_data.query_text,
          result_count |-> job_data.result_count,
          finished_at |-> job_data.finished_at,
          results |-> IF job_data.status = "DONE" THEN get_results(job_id) ELSE NoneV]
    ELSE [served_from |-> "database"]

\* The JobData values process_search_job stores in the course of one job
version_filters == CHOOSE r \in LLMResponses : r.selects = TARGET_MAX
version_running ==
    [NewJobData("query", NoneV) EXCEPT
        !.status = "RUNNING",
        !.conversation_history =
            Some([original_query |-> "query", steps |-> <<>>,
                  current_step |-> 0, total_auto_refinements |-> 0])]
version_stepped ==
    add_refinement_step(version_running, "initial", "query", version_filters, version_filters.selects, make_summary_count(version_filters.selects))
version_done ==
    [version_stepped EXCEPT !.status = "DONE", !.finished_at = Some("now"),
                            !.result_count = Some(version_filters.selects)]
version_error ==
    [version_running EXCEPT !.status = "ERROR", !.finished_at = Some("now"),
                            !.error_message = Some("")]
UnfinishedVersions ==
    {NewJobData("query", NoneV), version_running, version_stepped, version_error}

Stored(job_data) == Some([job_data |-> job_data, age |-> 0])

\* A store_job call of create_search_job, process_search_job or
\* add_refinement_step
StoreJob(job_id, job_data) ==
    /\ store_job(job_id, job_data)
    /\ last_stored' = [last_stored EXCEPT ![job_id] = Stored(job_data)]
    /\ UNCHANGED <<redis_ok, redis_results, results_ttl, RESULT_STORE, task, jobs_created, limitVars, rankVars, filterVars>>

\* process_search_job lines 273-281: the DONE job and then its results are
\* stored, with nothing between the two calls
FinishJob(job_id) ==
    /\ store_job(job_id, version_done)
    /\ store_results(job_id, convert_count(version_filters.selects, version_filters))
    /\ last_stored' = [last_stored EXCEPT ![job_id] = Stored(version_done)]
    /\ UNCHANGED <<redis_ok, task, jobs_created, limitVars, rankVars, filterVars>>

\* Redis stops answering: get_redis_client gives no client, or the command
\* raises and the except clause falls back
RedisFails ==
    /\ redis_ok
    /\ redis_ok' = FALSE
    /\ UNCHANGED <<redis_jobs, redis_results, job_ttl, results_ttl, JOB_STORE, RESULT_STORE, task, jobs_created, storeVars, limitVars, rankVars, filterVars>>

\* Redis answers again, with the keys it held
RedisRecovers ==
    /\ ~redis_ok
    /\ redis_ok' = TRUE
    /\ UNCHANGED <<redis_jobs, redis_results, job_ttl, results_ttl, JOB_STORE, RESULT_STORE, task, jobs_created, storeVars, limitVars, rankVars, filterVars>>

\* What is left of a TTL, and of a key, after ELAPSE_SECONDS
ttl_after(ttl) == IF ttl > ELAPSE_SECONDS THEN ttl - ELAPSE_SECONDS ELSE 0
key_after(value, ttl) == IF ttl > ELAPSE_SECONDS THEN value ELSE NoneV

\* ELAPSE_SECONDS pass: Redis expires the keys whose TTL has run out. The
\* in-memory stores keep everything (cleanup_old_jobs is never called).
Elapse ==
    /\ \E j \in JobIds : job_ttl[j] > 0 \/ results_ttl[j] > 0
    /\ job_ttl' = [j \in JobIds |-> ttl_after(job_ttl[j])]
    /\ results_ttl' = [j \in JobIds |-> ttl_after(results_ttl[j])]
    /\ redis_jobs' = [j \in JobIds |-> key_after(redis_jobs[j], job_ttl[j])]
    /\ redis_results' = [j \in JobIds |-> key_after(redis_results[j], results_ttl[j])]
    /\ last_stored' = [j \in JobIds |->
                         IF last_stored[j] = NoneV THEN NoneV
                         ELSE Some([last_stored[j][1] EXCEPT
                                      !.age = Min(@ + ELAPSE_SECONDS, JOB_TTL_SECONDS)])]
    /\ UNCHANGED <<redis_ok, JOB_STORE, RESULT_STORE, task, jobs_created, limitVars, rankVars, filterVars>>

StoreInit == Init

StoreNext ==
    \/ \E job_id \in StoredIds :
        \/ \E job_data \in UnfinishedVersions : StoreJob(job_id, job_data)
        \/ FinishJob(job_id)
    \/ RedisFails
    \/ RedisRecovers
    \/ Elapse

StoreSpec == StoreInit /\ [][StoreNext]_vars

----------------------------------------------------------------------------
(* OutageSpec: the background tasks when Redis stops answering during a job *)

\* get_job returns None to a running task: the attribute access on the
\* result raises AttributeError (lines 236, 275, 376, 553 or 573), the except
\* clause of process_search_job calls get_job again, gets None again and
\* raises at line 290; the exception leaves the task and nothing is stored.
TaskDies(job_id) ==
    /\ task[job_id].pc \in {"queued", "completing"} \cup Awaiting
    /\ get_job(job_id) = NoneV
    /\ task' = [task EXCEPT ![job_id].pc = "crashed"]
    /\ UNCHANGED <<redis_ok, redis_jobs, redis_results, job_ttl, results_ttl, JOB_STORE, RESULT_STORE, jobs_created, storeVars, limitVars, rankVars, filterVars>>

\* One step of the background task of a job: the event loop runs the task
\* whenever it can continue, and an awaited LLM call returns or raises
JobStep(job_id) ==
    \/ (ProcessStart(job_id) /\ UNCHANGED <<rankVars, filterVars, storeVars, limitVars>>)
    \/ (CompleteJob(job_id) /\ UNCHANGED <<rankVars, filterVars, storeVars, limitVars>>)
    \/ (StoreResults(job_id) /\ UNCHANGED <<rankVars, filterVars, storeVars, limitVars>>)
    \/ \E filters_json \in LLMResponses :
        \/ (InitialReturns(job_id, filters_json) /\ UNCHANGED <<rankVars, filterVars, storeVars, limitVars>>)
        \/ (AutoRefineReturns(job_id, filters_json) /\ UNCHANGED <<rankVars, filterVars, storeVars, limitVars>>)
        \/ (UserRefineReturns(job_id, filters_json) /\ UNCHANGED <<rankVars, filterVars, storeVars, limitVars>>)
        \/ (UserAutoRefineReturns(job_id, filters_json) /\ UNCHANGED <<rankVars, filterVars, storeVars, limitVars>>)
    \/ \E e \in LLMErrors :
        (LLMRaises(job_id, e) /\ UNCHANGED <<rankVars, filterVars, storeVars, limitVars>>)
    \/ TaskDies(job_id)

\* The service starts with Redis reachable
OutageInit == Init /\ redis_ok

OutageNext ==
    \/ Next
    \/ RedisFails
    \/ \E job_id \in JobIds : TaskDies(job_id)

OutageSpec ==
    /\ OutageInit
    /\ [][OutageNext]_vars
    /\ \A job_id \in JobIds : WF_vars(JobStep(job_id))

----------------------------------------------------------------------------
(* LimitSpec: check_rate_limit run by several workers on one Redis *)

RECURSIVE RequestsOf(_)
RequestsOf(ws) ==
    IF ws = {} THEN 0
    ELSE LET w == CHOOSE x \in ws : TRUE IN worker[w].requests + RequestsOf(ws \ {w})

\* Requests to /search received so far, by all workers
TotalRequests == RequestsOf(Workers)

\* protection_middleware hands a /search request of client_ip to
\* check_rate_limit (lines 91-95), which returns at once when there is no
\* Redis client (lines 44-47) and otherwise reads the minute counter (56)
BeginCheck(w, client_ip) ==
    /\ worker[w].pc = "idle"
    /\ TotalRequests < MaxRequests
    /\ worker' = [worker EXCEPT ![w] =
                    IF redis_ok
                    THEN [pc |-> "got_minute", client_ip |-> client_ip,
                          minute_count |-> rate_limit[client_ip].minute,
                          hour_count |-> 0, day_count |-> 0,
                          is_rate_limited |-> FALSE,
                          requests |-> worker[w].requests + 1]
                    ELSE [NoCheck EXCEPT !.requests = worker[w].requests + 1]]
    /\ UNCHANGED <<rate_limit, admitted>>

\* check_rate_limit returns is_rate_limited; its locals are gone
Returned_from_check(check, is_rate_limited) ==
    [NoCheck EXCEPT !.is_rate_limited = is_rate_limited, !.requests = check.requests]

\* hour_count = int(redis_client.get(hour_key) or 0) (line 57)
GetHour(w) ==
    /\ worker[w].pc = "got_minute"
    /\ worker' = [worker EXCEPT ![w].pc = "got_hour",
                                ![w].hour_count = rate_limit[worker[w].client_ip].hour]
    /\ UNCHANGED <<rate_limit, admitted>>

\* day_count = int(redis_client.get(day_key) or 0) (line 58)
GetDay(w) ==
    /\ worker[w].pc = "got_hour"
    /\ worker' = [worker EXCEPT ![w].pc = "got_day",
                                ![w].day_count = rate_limit[worker[w].client_ip].day]
    /\ UNCHANGED <<rate_limit, admitted>>

\* Lines 60-70: a limit is reached, the request is answered 429
Reject(w) ==
    /\ worker[w].pc = "got_day"
    /\ limit_exceeded(worker[w].minute_count, worker[w].hour_count, worker[w].day_count)
    /\ worker' = [worker EXCEPT ![w] = Returned_from_check(worker[w], TRUE)]
    /\ UNCHANGED <<rate_limit, admitted>>

\* Lines 72-82: no limit is reached, the pipeline increments the three
\* counters and renews their lifetimes; the request is admitted
Admit(w) ==
    LET client_ip == worker[w].client_ip IN
    /\ worker[w].pc = "got_day"
    /\ ~limit_exceeded(worker[w].minute_count, worker[w].hour_count, worker[w].day_count)
    /\ rate_limit' = [rate_limit EXCEPT ![client_ip] = pipe_execute(@)]
    /\ admitted' = [admitted EXCEPT ![client_ip] = pipe_execute(@)]
    /\ worker' = [worker EXCEPT ![w] = Returned_from_check(worker[w], FALSE)]

\* Redis expires a counter 60, 3600 or 86400 seconds after its last EXPIRE.
\* The pipeline renews the three lifetimes together, so the minute key always
\* goes first, then the hour key, then the day key.
ExpireMinute(client_ip) ==
    /\ rate_limit[client_ip].minute > 0
    /\ rate_limit' = [rate_limit EXCEPT ![client_ip].minute = 0]
    /\ admitted' = [admitted EXCEPT ![client_ip].minute = 0]
    /\ UNCHANGED worker

ExpireHour(client_ip) ==
    /\ rate_limit[client_ip].minute = 0
    /\ rate_limit[client_ip].hour > 0
    /\ rate_limit' = [rate_limit EXCEPT ![client_ip].hour = 0]
    /\ admitted' = [admitted EXCEPT ![client_ip].hour = 0]
    /\ UNCHANGED worker

ExpireDay(client_ip) ==
    /\ rate_limit[client_ip].hour = 0
    /\ rate_limit[client_ip].day > 0
    /\ rate_limit' = [rate_limit EXCEPT ![client_ip].day = 0]
    /\ admitted' = [admitted EXCEPT ![client_ip].day = 0]
    /\ UNCHANGED worker

limitFrame == <<redis_ok, redis_jobs, redis_results, job_ttl, results_ttl, JOB_STORE, RESULT_STORE, task, jobs_created, storeVars, rankVars, filterVars>>

\* Redis is reachable throughout
LimitInit == Init /\ redis_ok

LimitNext ==
    \/ \E w \in Workers :
        \/ \E client_ip \in ClientIps : BeginCheck(w, client_ip) /\ UNCHANGED limitFrame
        \/ GetHour(w) /\ UNCHANGED limitFrame
        \/ GetDay(w) /\ UNCHANGED limitFrame
        \/ Reject(w) /\ UNCHANGED limitFrame
        \/ Admit(w) /\ UNCHANGED limitFrame
    \/ \E client_ip \in ClientIps :
        \/ ExpireMinute(client_ip) /\ UNCHANGED limitFrame
        \/ ExpireHour(client_ip) /\ UNCHANGED limitFrame
        \/ ExpireDay(client_ip) /\ UNCHANGED limitFrame

LimitSpec == LimitInit /\ [][LimitNext]_vars

----------------------------------------------------------------------------
(* Reading the state of a job and of its turn *)

Status(j) == IF get_job(j) = NoneV THEN "absent" ELSE get_job(j)[1].status

HasHistory(j) ==
    /\ get_job(j) # NoneV
    /\ get_job(j)[1].conversation_history # NoneV

\* The steps of the job's conversation history, as get_job shows them
Steps(j) ==
    IF HasHistory(j) THEN get_job(j)[1].conversation_history[1].steps ELSE <<>>

\* The steps the request supplied: the turn appends after them
Base(j) ==
    IF task[j].existing = NoneV THEN 0 ELSE Len(task[j].existing[1].steps)

Started(j) == task[j].pc \notin {"none", "queued"}
IsResumedTurn(j) == Started(j) /\ Base(j) > 0
IsNewTurn(j) == Started(j) /\ Base(j) = 0

\* The turn's refinement function has returned to process_search_job
Returned(j) == task[j].pc \in {"completing", "storing_results", "done"}

TurnLen(j) == Len(Steps(j)) - Base(j)
TurnStep(j, p) == Steps(j)[Base(j) + p]
LastStep(j) == Steps(j)[Len(Steps(j))]

AllOutOfBand(j) ==
    \A p \in 1..TurnLen(j) : ~InBand(TurnStep(j, p).result_count)

----------------------------------------------------------------------------
(* Claims *)

\* C1 (as stated): in a new conversation whose first pass lands within
\* [50,150], the turn ends after exactly one refinement, 2 LLM calls in all.
C1_ExactlyTwoCalls ==
    \A j \in JobIds :
        (IsNewTurn(j) /\ Returned(j) /\ InBand(TurnStep(j, 1).result_count))
            => Len(task[j].calls) = 2

\* C1 (amended): in a new conversation whose first pass lands within
\* [50,150], that pass is never final: the refinement call is issued with
\* the first step, and the turn ends after one refinement (2 calls) exactly
\* when that refinement lands in band, and after two refinements (3 calls)
\* otherwise.
C1_FirstPassNeverFinal ==
    \A j \in JobIds :
        (IsNewTurn(j) /\ TurnLen(j) >= 1 /\ InBand(TurnStep(j, 1).result_count))
            => /\ Len(task[j].calls) >= 2
               /\ Returned(j) =>
                    /\ TurnLen(j) >= 2
                    /\ Len(task[j].calls) =
                         IF InBand(TurnStep(j, 2).result_count) THEN 2 ELSE 3

C1_Witness ==
    \E j \in JobIds :
        /\ IsNewTurn(j) /\ task[j].pc = "done"
        /\ InBand(TurnStep(j, 1).result_count)
        /\ Len(task[j].calls) = 2

\* C2: while every response of a turn is outside [50,150], the turn makes
\* exactly 3 LLM calls, never a fourth, and ends DONE with the result set of
\* the last step as the final one; for new and for user-resumed turns.
C2_BudgetExhaustion ==
    \A j \in JobIds :
        /\ Len(task[j].calls) <= 3
        /\ (Returned(j) /\ AllOutOfBand(j)) =>
                /\ Len(task[j].calls) = 3
                /\ TurnLen(j) = 3
                /\ task[j].current_results = LastStep(j).result_count
                /\ task[j].current_filters = Some(LastStep(j).filters_json)
        /\ (task[j].pc = "done" /\ AllOutOfBand(j)) =>
                /\ Status(j) = "DONE"
                /\ get_job(j)[1].result_count = Some(LastStep(j).result_count)
                /\ get_results(j) # NoneV
                /\ get_results(j)[1].result_count = LastStep(j).result_count

C2_Witness ==
    /\ \E j \in JobIds :
        IsNewTurn(j) /\ task[j].pc = "done" /\ AllOutOfBand(j) /\ TurnLen(j) = 3
    /\ \E j \in JobIds :
        IsResumedTurn(j) /\ task[j].pc = "done" /\ AllOutOfBand(j) /\ TurnLen(j) = 3

\* C3 (as stated): once the p-th call of a turn has produced an auto_refine
\* or user_refine step within [50,150], the turn issues no further LLM call.
C3_StopsAfterInBandRefinement ==
    \A j \in JobIds :
        \A p \in 1..TurnLen(j) :
            (/\ TurnStep(j, p).step_type \in {"auto_refine", "user_refine"}
             /\ InBand(TurnStep(j, p).result_count))
                => Len(task[j].calls) <= p

\* C4 (as stated): a turn in which an LLM call raised ends ERROR with a
\* non-empty error_message and finished_at set, stores no results, and keeps
\* the steps appended before the failure (one per call that returned).
C4_AbortOnLLMError ==
    \A j \in JobIds :
        task[j].llm_raised =>
            /\ Status(j) = "ERROR"
            /\ get_job(j)[1].error_message # NoneV
            /\ get_job(j)[1].error_message # Some("")
            /\ get_job(j)[1].finished_at # NoneV
            /\ get_results(j) = NoneV
            /\ TurnLen(j) = Len(task[j].calls) - 1

\* C5: zero rows is a successful outcome: a step whose filter excludes the
\* whole catalog is recorded with result_count 0, a job is ERROR only when
\* an LLM call raised, and a turn whose last step has zero rows ends DONE
\* with result_count 0 and an empty track list.
C5_ZeroRowsSucceed ==
    \A j \in JobIds :
        /\ Status(j) = "ERROR" => task[j].llm_raised
        /\ \A k \in 1..Len(Steps(j)) :
              Steps(j)[k].filters_json.selects = 0 =>
                  /\ Steps(j)[k].result_count = 0
                  /\ Steps(j)[k].result_summary = [result_count |-> 0]
        /\ (task[j].pc = "done" /\ LastStep(j).result_count = 0) =>
              /\ Status(j) = "DONE"
              /\ get_job(j)[1].result_count = Some(0)
              /\ get_results(j) # NoneV
              /\ get_results(j)[1].result_count = 0
              /\ get_results(j)[1].tracks = 0

C5_Witness ==
    \E j \in JobIds :
        /\ task[j].pc = "done" /\ LastStep(j).result_count = 0
        /\ Status(j) = "DONE"
        /\ \E p \in 1..(TurnLen(j) - 1) : TurnStep(j, p).result_count = 0

\* C6: the conversation history is append-only: every step of a job's
\* history stays at its position, unchanged, in every later state, and the
\* steps a resumed turn was given stay the first steps of its history.
C6_AppendOnly ==
    [][\A j \in JobIds :
          /\ Len(Steps(j)') >= Len(Steps(j))
          /\ \A k \in 1..Len(Steps(j)) : Steps(j)'[k] = Steps(j)[k]
          /\ (task'[j].existing # NoneV /\ task'[j].pc # "none") =>
                /\ Len(Steps(j)') >= Len(task'[j].existing[1].steps)
                /\ \A k \in 1..Len(task'[j].existing[1].steps) :
                      Steps(j)'[k] = task'[j].existing[1].steps[k]]_vars

C6_Witness ==
    \E j \in JobIds :
        IsResumedTurn(j) /\ task[j].pc = "done" /\ TurnLen(j) >= 2 /\ Base(j) >= 2

\* C7: the k-th step of every history has step_number k, current_step is
\* the number of steps, and the first step a resumed turn appends is
\* numbered one past the steps it was given.
C7_StepNumbering ==
    \A j \in JobIds :
        HasHistory(j) =>
            /\ \A k \in 1..Len(Steps(j)) : Steps(j)[k].step_number = k
            /\ get_job(j)[1].conversation_history[1].current_step = Len(Steps(j))
            /\ (IsResumedTurn(j) /\ TurnLen(j) >= 1) =>
                    TurnStep(j, 1).step_number = Base(j) + 1

C7_Witness ==
    \E j \in JobIds :
        /\ IsResumedTurn(j) /\ Base(j) >= 2 /\ TurnLen(j) >= 2
        /\ TurnStep(j, 1).step_number = Base(j) + 1

\* C8 (as stated): a DONE job carries the output of the latest step of its
\* history: its filters and result count, and in the stored results the
\* step's user_message and rationale as llm_message and llm_reflection.
C8_FinalOutputIsLatestStep ==
    \A j \in JobIds :
        Status(j) = "DONE" =>
            /\ get_job(j)[1].current_filters_json = Some(LastStep(j).filters_json)
            /\ get_job(j)[1].result_count = Some(LastStep(j).result_count)
            /\ get_results(j) # NoneV =>
                  /\ get_results(j)[1].llm_message = Some(LastStep(j).user_message)
                  /\ get_results(j)[1].llm_reflection = Some(LastStep(j).rationale)

\* C9 (as stated): convert_to_api_results returns min(n,150) tracks in
\* descending score order, ranked 1.. in that order, rows of equal score in
\* their original catalog order, with result_count = n.
C9_StableRanking ==
    api_out # NoneV =>
        LET tracks == api_out[1].tracks IN
        /\ Len(tracks) = Min(Len(scored), 150)
        /\ api_out[1].result_count = Len(scored)
        /\ \A k \in 1..Len(tracks) :
              /\ tracks[k].rank_position = k
              /\ tracks[k].relevance_score = scored[tracks[k].row]
        /\ \A k \in 1..Len(tracks) : \A l \in 1..Len(tracks) :
              k < l =>
                 \/ tracks[k].relevance_score > tracks[l].relevance_score
                 \/ /\ tracks[k].relevance_score = tracks[l].relevance_score
                    /\ tracks[k].row < tracks[l].row

\* C10: llm_to_filters includes a track iff it passes every active clause:
\* for a pure-decile feature with both bounds given, min <= decile <= max;
\* for a direct-use feature, the year and the explicit flag with both bounds
\* given, min <= raw value <= max; for a non-empty include list, some term
\* occurs in the track's genres; for a non-empty exclude list, no term does.
\* A clause with a bound absent or an empty list constrains nothing.
C10_AndOfActiveClauses ==
    combined_filter # NoneV =>
        LET fo == filters_object[1]
            mask == combined_filter[1]
        IN /\ Len(mask) = Len(main_df)
           /\ \A r \in 1..Len(main_df) :
                LET track == main_df[r]
                    genres == IF track.spotify_artist_genres = NoneV THEN ""
                              ELSE track.spotify_artist_genres[1]
                    inc == fo.spotify_artist_genres_include_any
                    exc == fo.spotify_artist_genres_exclude_any
                IN mask[r] <=>
                    /\ \A f \in {"danceability", "energy", "acousticness",
                                 "liveness", "valence", "views"} :
                          (fo[f \o "_min_decile"] # NoneV /\ fo[f \o "_max_decile"] # NoneV)
                          => /\ fo[f \o "_min_decile"][1] <= track[f \o "_decile"]
                             /\ track[f \o "_decile"] <= fo[f \o "_max_decile"][1]
                    /\ \A f \in {"loudness", "tempo", "duration_ms", "instrumentalness",
                                 "album_release_year", "track_is_explicit"} :
                          (fo[f \o "_min"] # NoneV /\ fo[f \o "_max"] # NoneV)
                          => /\ fo[f \o "_min"][1] <= track[f]
                             /\ track[f] <= fo[f \o "_max"][1]
                    /\ (inc # NoneV /\ inc # Some(""))
                          => \E term \in Range(_split_terms(inc[1])) :
                                contains(genres, term)
                    /\ (exc # NoneV /\ exc # Some(""))
                          => ~ \E term \in Range(_split_terms(exc[1])) :
                                  contains(genres, term)

\* C10 witness: a filter with an active decile clause, an active raw-value
\* clause whose range holds the track's raw value but not its decile, and
\* both genre clauses has been applied and includes the track.
C10_Witness ==
    /\ combined_filter # NoneV
    /\ \E f \in Range(deciles_features_list) :
          filters_object[1][f \o "_min_decile"] # NoneV
          /\ filters_object[1][f \o "_max_decile"] # NoneV
    /\ \E f \in Range(direct_use_features) :
          /\ filters_object[1][f \o "_min"] # NoneV
          /\ filters_object[1][f \o "_max"] # NoneV
          /\ main_df[1][f \o "_decile"] < filters_object[1][f \o "_min"][1]
    /\ filters_object[1].spotify_artist_genres_include_any = Some(" pop, folk")
    /\ filters_object[1].spotify_artist_genres_exclude_any = Some("jazz")
    /\ combined_filter[1][1]

\* C11 (as stated): a range clause whose pair is the schema default of its
\* feature changes nothing: the mask equals the mask of the same parameter
\* object with that feature's pair absent, for every feature and catalog.
C11_DefaultBoundsNoOp ==
    combined_filter # NoneV =>
        \A feature \in AllFeatures :
            (/\ filters_object[1][min_key(feature)] = Some(default_min(feature))
             /\ filters_object[1][max_key(feature)] = Some(default_max(feature)))
            => combined_filter[1]
                 = llm_to_filters(main_df,
                      with_bounds(filters_object[1], feature, NoneV, NoneV))

\* C12: widening one feature's range (lower min and/or higher max) or
\* clearing the include or the exclude list never removes a track: the
\* tracks included by a parameter object are included by every parameter
\* object that differs from it in that way only.
C12_Monotone ==
    combined_filter # NoneV =>
        LET fo == filters_object[1]
            mask == combined_filter[1]
            subset(wider) ==
                \A r \in 1..Len(main_df) :
                    mask[r] => llm_to_filters(main_df, wider)[r]
        IN /\ \A feature \in AllFeatures :
                (fo[min_key(feature)] # NoneV /\ fo[max_key(feature)] # NoneV) =>
                    \A down \in 0..1, up \in 0..1 :
                        subset(with_bounds(fo, feature,
                                   Some(fo[min_key(feature)][1] - down),
                                   Some(fo[max_key(feature)][1] + up)))
           /\ subset([fo EXCEPT !.spotify_artist_genres_include_any = Some("")])
           /\ subset([fo EXCEPT !.spotify_artist_genres_exclude_any = Some("")])

\* C12 witness: a track left out by a decile clause and by the include list
\* is included once that range is one wider and the list is cleared, the
\* wider range alone keeping it out.
C12_Witness ==
    /\ combined_filter # NoneV
    /\ ~ combined_filter[1][1]
    /\ \E feature \in Range(deciles_features_list) :
          /\ filters_object[1][min_key(feature)] # NoneV
          /\ filters_object[1][max_key(feature)] # NoneV
          /\ LET wider == with_bounds(filters_object[1], feature,
                              Some(filters_object[1][min_key(feature)][1] - 1),
                              filters_object[1][max_key(feature)])
                 cleared == [wider EXCEPT !.spotify_artist_genres_include_any = Some("")]
             IN /\ ~ llm_to_filters(main_df, wider)[1]
                /\ llm_to_filters(main_df, cleared)[1]

\* C13: genre matching is by substring. With no range clause active, a
\* track is included iff (the include list is empty or some include term
\* occurs somewhere inside its genre text) and (the exclude list is empty or
\* no exclude term occurs inside its genre text); a term need not be a
\* whole genre name.
C13_SubstringMatch ==
    combined_filter # NoneV =>
        LET fo == filters_object[1]
            inc == fo.spotify_artist_genres_include_any
            exc == fo.spotify_artist_genres_exclude_any
            occurs(term, g) ==
                \E i \in 1..(Len(g) + 1) : \E j \in (i - 1)..Len(g) :
                    SubSeq(g, i, j) = term
        IN \A r \in 1..Len(main_df) :
              LET genres == IF main_df[r].spotify_artist_genres = NoneV THEN ""
                            ELSE main_df[r].spotify_artist_genres[1]
              IN combined_filter[1][r] <=>
                   /\ (inc # NoneV /\ inc # Some(""))
                         => \E k \in 1..Len(_split_terms(inc[1])) :
                               occurs(_split_terms(inc[1])[k], genres)
                   /\ (exc # NoneV /\ exc # Some(""))
                         => ~ \E k \in 1..Len(_split_terms(exc[1])) :
                                 occurs(_split_terms(exc[1])[k], genres)

\* C13 witness: with include list "pop" and no exclude list the track with
\* genre text "k-pop, dance" is included and the track with genre text
\* "rock" is not.
C13_Witness ==
    /\ combined_filter # NoneV
    /\ filters_object[1].spotify_artist_genres_include_any = Some("pop")
    /\ filters_object[1].spotify_artist_genres_exclude_any = Some("")
    /\ main_df[1].spotify_artist_genres = Some("k-pop, dance")
    /\ main_df[2].spotify_artist_genres = Some("rock")
    /\ combined_filter[1] = <<TRUE, FALSE>>

\* C14 (as stated): include matching is case-normalized. With the include
\* list the only active clause, a track is included iff some include term,
\* brought to lower case, occurs inside the track's genre text brought to
\* lower case; "Pop" and "pop" select the same tracks.
C14_CaseNormalizedInclude ==
    LET upper == "ABCDEFGHIJKLMNOPQRSTUVWXYZ"
        lower == "abcdefghijklmnopqrstuvwxyz"
        lower_char(c) ==
            IF \E k \in 1..Len(upper) : SubSeq(upper, k, k) = c
            THEN LET k == CHOOSE k \in 1..Len(upper) : SubSeq(upper, k, k) = c
                 IN SubSeq(lower, k, k)
            ELSE c
        RECURSIVE to_lower(_)
        to_lower(text) ==
            IF text = "" THEN ""
            ELSE lower_char(SubSeq(text, 1, 1)) \o to_lower(SubSeq(text, 2, Len(text)))
        occurs(term, g) ==
            \E i \in 1..(Len(g) + 1) : \E j \in (i - 1)..Len(g) :
                SubSeq(g, i, j) = term
        inc == filters_object[1].spotify_artist_genres_include_any
        exc == filters_object[1].spotify_artist_genres_exclude_any
    IN (/\ combined_filter # NoneV
        /\ inc # NoneV /\ inc # Some("")
        /\ exc \in {NoneV, Some("")})
       => \A r \in 1..Len(main_df) :
             LET genres == IF main_df[r].spotify_artist_genres = NoneV THEN ""
                           ELSE main_df[r].spotify_artist_genres[1]
             IN combined_filter[1][r] <=>
                  \E k \in 1..Len(_split_terms(inc[1])) :
                      occurs(to_lower(_split_terms(inc[1])[k]), to_lower(genres))

\* C15 (as stated): whenever the include list is non-empty, for every
\* content of the field, every track whose genre text is empty or unknown
\* is excluded.
C15_IncludeDropsUnknownGenres ==
    (/\ combined_filter # NoneV
     /\ filters_object[1].spotify_artist_genres_include_any # NoneV
     /\ filters_object[1].spotify_artist_genres_include_any # Some(""))
    => \A r \in 1..Len(main_df) :
          main_df[r].spotify_artist_genres \in {NoneV, Some("")}
              => ~ combined_filter[1][r]

\* C16 (as stated): the genre bonus of every scored track is 50 times the
\* number of boosted terms that occur inside its genre text, without a cap;
\* a track with empty or unknown genre text gets no bonus; and the boosted
\* list does not change which tracks are included.
C16_BoostStacking ==
    filtered_results # NoneV =>
        LET fo == filters_object[1]
            boosted == fo.spotify_artist_genres_boosted
            terms == IF boosted = NoneV THEN <<>> ELSE _split_terms(boosted[1])
            occurs(term, g) ==
                \E i \in 1..(Len(g) + 1) : \E j \in (i - 1)..Len(g) :
                    SubSeq(g, i, j) = term
            unboosted ==
                filters_to_results_df(main_df, combined_filter[1],
                    [fo EXCEPT !.spotify_artist_genres_boosted = Some("")])
        IN /\ Len(unboosted) = Len(filtered_results[1])
           /\ \A n \in 1..Len(filtered_results[1]) :
                LET row == filtered_results[1][n]
                    genres == IF row.spotify_artist_genres = NoneV THEN ""
                              ELSE row.spotify_artist_genres[1]
                    bonus == row.relevance_score - unboosted[n].relevance_score
                IN /\ row.index = unboosted[n].index
                   /\ bonus = 50 * Cardinality({k \in 1..Len(terms) :
                                                   occurs(terms[k], genres)})
                   /\ genres = "" => bonus = 0

\* C17: the frame the scorer returns holds exactly the rows the mask
\* includes, in catalog order, and the relevance_score of each is the sum
\* over the six pure-decile and the four direct-use features of weight
\* times the feature's decile column, whatever the weight, plus 50 for each
\* boost term found in the genre text.
C17_ScoreIsWeightedDecileSum ==
    filtered_results # NoneV =>
        LET fo == filters_object[1]
            out == filtered_results[1]
            boosted == fo.spotify_artist_genres_boosted
            terms == IF boosted = NoneV THEN <<>> ELSE _split_terms(boosted[1])
            weight(f) == IF fo[f \o "_decile_weight"] = NoneV THEN 0
                         ELSE fo[f \o "_decile_weight"][1]
            part(row, f) == weight(f) * row[f \o "_decile"]
        IN /\ {out[n].index : n \in 1..Len(out)}
                = {r \in 1..Len(main_df) : combined_filter[1][r]}
           /\ \A n \in 1..Len(out) : \A m \in 1..Len(out) :
                 n < m => out[n].index < out[m].index
           /\ \A n \in 1..Len(out) :
                LET row == main_df[out[n].index]
                    genres == IF row.spotify_artist_genres = NoneV THEN ""
                              ELSE row.spotify_artist_genres[1]
                IN out[n].relevance_score
                     = part(row, "danceability") + part(row, "energy")
                       + part(row, "acousticness") + part(row, "liveness")
                       + part(row, "valence") + part(row, "views")
                       + part(row, "loudness") + part(row, "tempo")
                       + part(row, "duration_ms") + part(row, "instrumentalness")
                       + 50 * Cardinality({k \in 1..Len(terms) :
                                              contains(genres, terms[k])})

\* C17 witness: a track excluded by the include list is absent from the
\* frame, and the one kept has a score made of a weight outside -100..100
\* on a pure-decile feature, a weight on a direct-use feature whose decile
\* differs from its raw value, and a genre bonus.
C17_Witness ==
    /\ filtered_results # NoneV
    /\ Len(filtered_results[1]) = 1
    /\ Len(main_df) = 2
    /\ \E f \in Range(deciles_features_list) :
          filters_object[1][f \o "_decile_weight"] = Some(-150)
    /\ \E f \in Range(direct_use_features) :
          /\ filters_object[1][f \o "_decile_weight"] = Some(3)
          /\ filtered_results[1][1][f] # filtered_results[1][1][f \o "_decile"]
    /\ "genre_boost_hits" \in DOMAIN filtered_results[1][1]
    /\ filtered_results[1][1].genre_boost_hits > 0

\* C18: make_summary of a frame without rows returns the digest that holds
\* result_count = 0 and nothing else (no top examples, score statistics,
\* year range or genre list); it does not raise.
C18_EmptySummary ==
    (summary_out # NoneV /\ Len(filtered_results[1]) = 0)
    => /\ DOMAIN summary_out[1] = {"result_count"}
       /\ summary_out[1].result_count = 0

\* C18 witness: make_summary has returned for a frame without rows.
C18_Witness ==
    /\ summary_out # NoneV
    /\ filtered_results = Some(<<>>)

\* C19 (as stated): the digest holds at most top_k = 5 example rows, the
\* first 5 rows by descending score with rows of equal score in catalog
\* order, never the whole frame when it is larger, and its result_count is
\* the number of rows of the frame.
C19_TopKStable ==
    (summary_out # NoneV /\ Len(filtered_results[1]) > 0)
    => LET df == filtered_results[1]
           top == summary_out[1].top_examples
       IN /\ summary_out[1].result_count = Len(df)
          /\ Len(top) = Min(Len(df), 5)
          /\ \A k \in 1..Len(top) :
                \* exactly the rows placed before it come before it
                Cardinality({r \in 1..Len(df) :
                    \/ df[r].relevance_score > top[k].relevance_score
                    \/ /\ df[r].relevance_score = top[k].relevance_score
                       /\ r < top[k].index}) = k - 1

\* C20 (as stated): the filter compiler and the scorer never raise on a
\* malformed parameter object: with a bound or a weight missing the search
\* still returns, the feature being inactive, and a pair with min > max
\* gives zero results.
C20_NeverRaisesOnMalformed ==
    summary_out # NoneV =>
        /\ ~ IsRaise(summary_out[1])
        /\ (\E feature \in AllFeatures :
               /\ min_key(feature) \in DOMAIN filters_object[1]
               /\ max_key(feature) \in DOMAIN filters_object[1]
               /\ filters_object[1][min_key(feature)] # NoneV
               /\ filters_object[1][max_key(feature)] # NoneV
               /\ filters_object[1][min_key(feature)][1]
                     > filters_object[1][max_key(feature)][1])
           => summary_out[1].result_count = 0

\* C21: the LLM calls of a turn are sequential. A call is issued only when
\* the step of the call before it has been appended, so at most one call is
\* in flight; the prompt of the (k+1)-th call embeds the filters and the
\* summary of the step of the k-th call, and the first prompt of a
\* user-resumed turn those of the latest prior step with the new feedback.
C21_SequentialCalls ==
    \A j \in 1..jobs_created :
        Started(j) =>
            LET calls == task[j].calls IN
            /\ Len(calls) >= 1
            /\ Len(calls) - TurnLen(j) \in {0, 1}
            /\ task[j].pc \in Awaiting => Len(calls) = TurnLen(j) + 1
            /\ \A k \in 2..Len(calls) :
                  /\ calls[k].prompt.kind = "refine"
                  /\ calls[k].prompt.previous_filters
                        = Some(TurnStep(j, k - 1).filters_json)
                  /\ calls[k].prompt.result_summary
                        = Some(TurnStep(j, k - 1).result_summary)
            /\ IsNewTurn(j) => calls[1].prompt.kind = "initial"
            /\ IsResumedTurn(j) =>
                  /\ calls[1].prompt.kind = "refine"
                  /\ calls[1].prompt.previous_filters
                        = Some(Steps(j)[Base(j)].filters_json)
                  /\ calls[1].prompt.result_summary
                        = Some(Steps(j)[Base(j)].result_summary)
                  /\ calls[1].prompt.user_feedback
                        = Some(Text(task[j].query_text, 0, 0))

\* C21 witness: a user-resumed turn has issued its third call, with two
\* steps of the turn appended.
C21_Witness ==
    \E j \in 1..jobs_created :
        /\ IsResumedTurn(j)
        /\ task[j].pc \in Awaiting
        /\ Len(task[j].calls) = 3
        /\ TurnLen(j) = 2

\* C22: every refinement call, automatic or user-initiated, is made with
\* the history accumulated so far, the steps appended earlier in the same
\* turn included; only the initial call of a new conversation has none.
C22_RefinementCallsCarryHistory ==
    \A j \in 1..jobs_created :
        Started(j) =>
            \A k \in 1..Len(task[j].calls) :
                IF IsNewTurn(j) /\ k = 1
                THEN task[j].calls[k].history = NoneV
                ELSE task[j].calls[k].history
                        = Some(SubSeq(Steps(j), 1, Base(j) + k - 1))

\* C23: the job store is last-write-wins. Right after any sequence of
\* store_job calls for an id (no time has passed since the last one),
\* get_job returns the JobData of the most recent call, whatever Redis did
\* between the calls.
C23_LastWriteWins ==
    \A j \in JobIds :
        (last_stored[j] # NoneV /\ last_stored[j][1].age = 0)
            => get_job(j) = Some(last_stored[j][1].job_data)

\* C24: job_exists and get_job agree for every id: get_job returns a job
\* exactly when job_exists is true, so get_job_status never leaves the
\* stores for a job that get_job can return.
C24_ExistsAgreesWithGet ==
    \A j \in JobIds :
        /\ job_exists(j) <=> get_job(j) # NoneV
        /\ get_job(j) # NoneV => get_job_status(j).served_from = "store"

\* C26: whenever get_job_status reports DONE, the same response carries
\* the results.
C26_DoneCarriesResults ==
    \A j \in JobIds :
        LET response == get_job_status(j) IN
        (response.served_from = "store" /\ response.status = "DONE")
            => response.results # NoneV

\* C25: the status of a job only moves QUEUED -> RUNNING -> DONE or
\* RUNNING -> ERROR; DONE and ERROR are never left; and finished_at is set
\* exactly in the states DONE and ERROR.
C25_StatusLifecycle ==
    /\ [](\A j \in JobIds :
            get_job(j) # NoneV =>
                (get_job(j)[1].finished_at # NoneV <=> Status(j) \in {"DONE", "ERROR"}))
    /\ [][\A j \in JobIds :
            Status(j)' # Status(j) =>
                <<Status(j), Status(j)'>> \in
                    {<<"absent", "QUEUED">>, <<"QUEUED", "RUNNING">>,
                     <<"RUNNING", "DONE">>, <<"RUNNING", "ERROR">>}]_vars

\* C25 witness: one job has finished DONE and another one ERROR, each with
\* its finished_at.
C25_Witness ==
    \E j, k \in 1..jobs_created :
        /\ Status(j) = "DONE" /\ get_job(j)[1].finished_at # NoneV
        /\ Status(k) = "ERROR" /\ get_job(k)[1].finished_at # NoneV
        /\ task[j].pc = "done" /\ task[k].pc = "failed"

C28_StepTypesAndAutoCount ==
    \A j \in 1..jobs_created :
        Started(j) =>
            /\ \A p \in 1..TurnLen(j) :
                  TurnStep(j, p).step_type =
                      IF p > 1 THEN "auto_refine"
                      ELSE IF IsNewTurn(j) THEN "initial" ELSE "user_refine"
            /\ Returned(j) =>
                  get_job(j)[1].conversation_history[1].total_auto_refinements
                      = Cardinality({p \in 1..Len(Steps(j)) :
                                        Steps(j)[p].step_type = "auto_refine"})

\* C28 witness: a user-resumed turn has succeeded on a history that already
\* held automatic refinements, having appended automatic refinements itself.
C28_Witness ==
    \E j \in 1..jobs_created :
        /\ IsResumedTurn(j)
        /\ task[j].pc = "done"
        /\ TurnLen(j) = 3
        /\ \E p \in 1..Base(j) : Steps(j)[p].step_type = "auto_refine"
        /\ get_job(j)[1].conversation_history[1].total_auto_refinements >= 3

\* C29: every job that create_search_job created eventually reaches DONE or
\* ERROR, given that every LLM call returns or raises; no turn makes more
\* than max_iters LLM calls.
C29_EveryJobTerminates ==
    /\ \A j \in JobIds :
          (task[j].pc = "queued") ~> (Status(j) \in {"DONE", "ERROR"})
    /\ [](\A j \in JobIds : Len(task[j].calls) <= max_iters)

\* C30: while Redis is reachable, check_rate_limit admits at most
\* MINUTE_LIMIT requests of one client IP in the life of its minute counter,
\* at most HOUR_LIMIT in the life of its hour counter and DAY_LIMIT in the
\* life of its day counter, also when several workers check requests of
\* the same IP at once.
C30_AdmitsWithinLimits ==
    \A client_ip \in ClientIps :
        /\ admitted[client_ip].minute <= MINUTE_LIMIT
        /\ admitted[client_ip].hour <= HOUR_LIMIT
        /\ admitted[client_ip].day <= DAY_LIMIT

====
